---------------------------- MODULE Spec2Model ----------------------------
(***************************************************************************)
(* TaxAgent: the document classification / extraction pipeline             *)
(* (services/document_processor.py), the progressive tax engine            *)
(* (services/tax_calculator.py) and the routes /calculate,                 *)
(* /calculate/estimate and /process (routes/calculate.py,                  *)
(* routes/process.py).                                                     *)
(*                                                                         *)
(* Units.  The program computes in floats; here an amount is an exact      *)
(* number: dollar amounts are integers, a bracket rate is held in percent  *)
(* (0.10 is 10), so a tax, amount * rate, is held in cents.  The rounding  *)
(* of float arithmetic is not part of the model.                           *)
(***************************************************************************)
EXTENDS Integers, Sequences, FiniteSets, TLC

VARIABLES
    \* ---- tax engine (SpecTax) ----
    filing_status,       \* the filer's filing status
    call,                \* the latest calculate_marginal_tax / get_bracket_breakdown call
    prev_call,           \* the call before it
    \* ---- one document (SpecDoc) ----
    pdf,                 \* the file: the texts of its pages
    raw_text,            \* what extract_text_from_pdf returned
    detected,            \* what detect_document_type returned for its text
    extracted,           \* what process_document returned, or that it raised
    validation,          \* what validate_extracted_data returned
    \* ---- a request to /calculate, /calculate/estimate or /process (Spec) ----
    route,               \* the route that was called
    request,             \* the JSON body of the request
    upload_folder,       \* whether the upload folder exists
    pdf_files,           \* the PDF files of the upload folder, as listed
    files_done,          \* how many of them the loop has gone through
    income_data,         \* /calculate: the income aggregated so far
    processed_documents, \* the entries appended so far
    total_confidence,    \* /process: the confidence summed so far
    response,            \* the response, once returned
    \* ---- a direct use of TaxCalculator (SpecCalc) ----
    inputs,              \* the arguments of the caller
    inputs_validation,   \* what validate_inputs returned for them
    calc_result          \* what calculate_tax returned for them, or that it raised

taxVars == <<filing_status, call, prev_call>>
docVars == <<pdf, raw_text, detected, extracted, validation>>
batchVars == <<route, request, upload_folder, pdf_files, files_done, income_data,
               processed_documents, total_confidence, response>>
calcVars == <<inputs, inputs_validation, calc_result>>
vars == <<taxVars, docVars, batchVars, calcVars>>

Min(a, b) == IF a <= b THEN a ELSE b
SetMin(S) == CHOOSE x \in S : \A y \in S : x <= y
SetMax(S) == CHOOSE x \in S : \A y \in S : y <= x

(***************************************************************************)
(* tax_calculator.py                                                       *)
(***************************************************************************)

\* class FilingStatus(Enum)
FilingStatus == {"single", "married", "head_of_household"}

\* float('inf'): larger than every income of the model
inf == 2147483647

\* TaxBracket(rate, min_income, max_income), rate in percent
TaxBracket(rate, min_income, max_income) ==
    [rate |-> rate, min_income |-> min_income, max_income |-> max_income]

single_brackets ==
    << TaxBracket(10, 0, 11600),
       TaxBracket(12, 11600, 47150),
       TaxBracket(22, 47150, 100525),
       TaxBracket(24, 100525, 191950),
       TaxBracket(32, 191950, 243725),
       TaxBracket(35, 243725, 609350),
       TaxBracket(37, 609350, inf) >>

married_brackets ==
    << TaxBracket(10, 0, 23200),
       TaxBracket(12, 23200, 94300),
       TaxBracket(22, 94300, 201050),
       TaxBracket(24, 201050, 383900),
       TaxBracket(32, 383900, 487450),
       TaxBracket(35, 487450, 731200),
       TaxBracket(37, 731200, inf) >>

\* a slip of copying: the 35% bracket starts where the table of Single has it
hoh_brackets_with_gap ==
    << TaxBracket(10, 0, 16550),
       TaxBracket(12, 16550, 63100),
       TaxBracket(22, 63100, 100500),
       TaxBracket(24, 100500, 191950),
       TaxBracket(32, 191950, 243700),
       TaxBracket(35, 243725, 609350),
       TaxBracket(37, 609350, inf) >>

hoh_brackets ==
    << TaxBracket(10, 0, 16550),
       TaxBracket(12, 16550, 63100),
       TaxBracket(22, 63100, 100500),
       TaxBracket(24, 100500, 191950),
       TaxBracket(32, 191950, 243700),
       TaxBracket(35, 243700, 609350),
       TaxBracket(37, 609350, inf) >>

get_brackets_for_status(status) ==
    IF status = "single" THEN single_brackets
    ELSE IF status = "married" THEN married_brackets
    ELSE IF status = "head_of_household" THEN hoh_brackets
    ELSE single_brackets

\* mutant: the cap of the bracket's width is dropped
calculate_tax_for_bracket_uncapped(income, bracket) ==
    IF income <= bracket.min_income THEN 0
    ELSE (income - bracket.min_income) * bracket.rate

calculate_tax_for_bracket(income, bracket) ==
    IF income <= bracket.min_income THEN 0
    ELSE LET taxable_in_bracket ==
                 Min(income - bracket.min_income,
                     bracket.max_income - bracket.min_income)
         IN  taxable_in_bracket * bracket.rate

\* the for loop of calculate_marginal_tax, from bracket i on
RECURSIVE marginal_loop(_, _, _, _)
marginal_loop(brackets, taxable_income, i, total_tax) ==
    IF i > Len(brackets) THEN total_tax
    ELSE IF taxable_income > brackets[i].min_income
         THEN marginal_loop(brackets, taxable_income, i + 1,
                  total_tax + calculate_tax_for_bracket(taxable_income, brackets[i]))
         ELSE marginal_loop(brackets, taxable_income, i + 1, total_tax)

\* mutant: only the bracket the income falls in is taxed (not cumulative)
RECURSIVE active_only_loop(_, _, _, _)
active_only_loop(brackets, taxable_income, i, total_tax) ==
    IF i > Len(brackets) THEN total_tax
    ELSE IF taxable_income > brackets[i].min_income
            /\ taxable_income <= brackets[i].max_income
         THEN active_only_loop(brackets, taxable_income, i + 1,
                  total_tax + calculate_tax_for_bracket(taxable_income, brackets[i]))
         ELSE active_only_loop(brackets, taxable_income, i + 1, total_tax)

calculate_marginal_tax_active_only(taxable_income, status) ==
    active_only_loop(get_brackets_for_status(status), taxable_income, 1, 0)

calculate_marginal_tax(taxable_income, status) ==
    marginal_loop(get_brackets_for_status(status), taxable_income, 1, 0)

\* a slip: the amount in a bracket is not capped at the bracket's width
breakdown_entry_uncapped(taxable_income, bracket) ==
    [bracket            |-> bracket.rate,
     income_range       |-> [min_income |-> bracket.min_income,
                             max_income |-> bracket.max_income,
                             open_ended |-> bracket.max_income = inf],
     taxable_in_bracket |-> taxable_income - bracket.min_income,
     tax_for_bracket    |-> calculate_tax_for_bracket(taxable_income, bracket)]

\* one entry of the breakdown list; income_range is the formatted range,
\* open-ended ("$609,350+") when max_income is float('inf')
breakdown_entry(taxable_income, bracket) ==
    [bracket            |-> bracket.rate,
     income_range       |-> [min_income |-> bracket.min_income,
                             max_income |-> bracket.max_income,
                             open_ended |-> bracket.max_income = inf],
     taxable_in_bracket |-> Min(taxable_income - bracket.min_income,
                                bracket.max_income - bracket.min_income),
     tax_for_bracket    |-> calculate_tax_for_bracket(taxable_income, bracket)]

\* a slip: a bracket is listed from its min_income on, not above it
RECURSIVE breakdown_loop_from_min(_, _, _, _)
breakdown_loop_from_min(brackets, taxable_income, i, breakdown) ==
    IF i > Len(brackets) THEN breakdown
    ELSE IF taxable_income >= brackets[i].min_income
         THEN breakdown_loop_from_min(brackets, taxable_income, i + 1,
                  Append(breakdown, breakdown_entry(taxable_income, brackets[i])))
         ELSE breakdown_loop_from_min(brackets, taxable_income, i + 1, breakdown)

\* the for loop of get_bracket_breakdown, from bracket i on
RECURSIVE breakdown_loop(_, _, _, _)
breakdown_loop(brackets, taxable_income, i, breakdown) ==
    IF i > Len(brackets) THEN breakdown
    ELSE IF taxable_income > brackets[i].min_income
         THEN breakdown_loop(brackets, taxable_income, i + 1,
                  Append(breakdown, breakdown_entry(taxable_income, brackets[i])))
         ELSE breakdown_loop(brackets, taxable_income, i + 1, breakdown)

get_bracket_breakdown(taxable_income, status) ==
    breakdown_loop(get_brackets_for_status(status), taxable_income, 1, <<>>)

(***************************************************************************)
(* Text.  A str is a sequence of one-character strings; the operators      *)
(* below are the str and re operations document_processor.py uses.         *)
(***************************************************************************)

Digits == {"0", "1", "2", "3", "4", "5", "6", "7", "8", "9"}

LowerSeq ==
    << "a", "b", "c", "d", "e", "f", "g", "h", "i", "j", "k", "l", "m",
       "n", "o", "p", "q", "r", "s", "t", "u", "v", "w", "x", "y", "z" >>

UpperSeq ==
    << "A", "B", "C", "D", "E", "F", "G", "H", "I", "J", "K", "L", "M",
       "N", "O", "P", "Q", "R", "S", "T", "U", "V", "W", "X", "Y", "Z" >>

LowerLetters == { LowerSeq[i] : i \in DOMAIN LowerSeq }
UpperLetters == { UpperSeq[i] : i \in DOMAIN UpperSeq }

\* \s
Whitespace == {" ", "\n", "\t"}

\* str.upper()
upper(s) ==
    [i \in 1..Len(s) |->
        IF s[i] \in LowerLetters
        THEN UpperSeq[CHOOSE k \in DOMAIN LowerSeq : LowerSeq[k] = s[i]]
        ELSE s[i]]

\* s[i:i+len(lit)] == lit
StartsAt(s, i, lit) ==
    /\ i >= 1
    /\ i + Len(lit) - 1 <= Len(s)
    /\ \A j \in 1..Len(lit) : s[i + j - 1] = lit[j]

\* lit in s
Contains(lit, s) == \E i \in 1..(Len(s) - Len(lit) + 1) : StartsAt(s, i, lit)

\* str.strip()
strip(s) ==
    LET keep == { i \in 1..Len(s) : s[i] \notin Whitespace }
    IN  IF keep = {} THEN <<>>
        ELSE SubSeq(s, SetMin(keep), SetMax(keep))

\* str.split(sep) for a one-character sep: the pieces between the separators
split_on(s, sep) ==
    LET cuts == { i \in 1..Len(s) : s[i] = sep } \cup {0, Len(s) + 1}
        \* the k-th cut, counted from 0
        Cut(k) == CHOOSE c \in cuts : Cardinality({ d \in cuts : d < c }) = k
    IN  [k \in 1..(Cardinality(cuts) - 1) |-> SubSeq(s, Cut(k - 1) + 1, Cut(k) - 1)]

\* str.split('\n')
split_lines(s) == split_on(s, "\n")

\* str.split(): the maximal runs of non-whitespace
split(s) ==
    LET starts == { i \in 1..Len(s) :
                      s[i] \notin Whitespace /\ (i = 1 \/ s[i - 1] \in Whitespace) }
        ends == { i \in 1..Len(s) :
                    s[i] \notin Whitespace /\ (i = Len(s) \/ s[i + 1] \in Whitespace) }
        Start(k) == CHOOSE c \in starts : Cardinality({ d \in starts : d < c }) = k - 1
        End(k) == CHOOSE c \in ends : Cardinality({ d \in ends : d < c }) = k - 1
    IN  [k \in 1..Cardinality(starts) |-> SubSeq(s, Start(k), End(k))]

\* str.replace(',', '')
remove_commas(s) == SelectSeq(s, LAMBDA c : c # ",")

\* str.isdigit()
isdigit(s) == s # <<>> /\ \A i \in 1..Len(s) : s[i] \in Digits

DigitValue(c) == CHOOSE n \in 0..9 : <<"0", "1", "2", "3", "4", "5", "6", "7", "8", "9">>[n + 1] = c

\* int(s) of a digit string
RECURSIVE int_of_from(_, _, _)
int_of_from(s, i, n) ==
    IF i > Len(s) THEN n ELSE int_of_from(s, i + 1, 10 * n + DigitValue(s[i]))

int_of(s) == int_of_from(s, 1, 0)

\* float(s) for the tokens the pages of the model hold: an optional sign and
\* digits give the number, and a token with a letter or an inner "-" raises
\* ValueError.  (float also reads a decimal point, an exponent, inf and nan;
\* no page here has such a token.)
float_of(s) ==
    LET signed == s # <<>> /\ s[1] \in {"-", "+"}
        body == IF signed THEN Tail(s) ELSE s
    IN  IF isdigit(body)
        THEN [raised |-> FALSE,
              value  |-> IF signed /\ s[1] = "-" THEN 0 - int_of(body) ELSE int_of(body)]
        ELSE [raised |-> TRUE]

NoMatch == [found |-> FALSE]

\* re.findall(p, text)[0] for a pattern that matches len characters, hits
\* being the positions where it matches: the leftmost match
FirstFixed(text, len, hits) ==
    IF hits = {} THEN NoMatch
    ELSE [found |-> TRUE, match |-> SubSeq(text, SetMin(hits), SetMin(hits) + len - 1)]

AllDigits(text, lo, hi) == \A j \in lo..hi : text[j] \in Digits

\* r'(\d{2}-\d{7})'
MatchesEIN(text, i) ==
    /\ AllDigits(text, i, i + 1) /\ text[i + 2] = "-" /\ AllDigits(text, i + 3, i + 9)

\* r'(\d{3}-\d{2}-\d{4})'
MatchesSSN(text, i) ==
    /\ AllDigits(text, i, i + 2) /\ text[i + 3] = "-"
    /\ AllDigits(text, i + 4, i + 5) /\ text[i + 6] = "-"
    /\ AllDigits(text, i + 7, i + 10)

find_ein(text) ==
    FirstFixed(text, 10, { i \in 1..(Len(text) - 9) : MatchesEIN(text, i) })

find_ssn(text) ==
    FirstFixed(text, 11, { i \in 1..(Len(text) - 10) : MatchesSSN(text, i) })

\* the end of the maximal run of characters of class cls that starts at i
run_end(text, i, cls) ==
    LET stops == { j \in i..Len(text) : text[j] \notin cls }
    IN  IF stops = {} THEN Len(text) ELSE SetMin(stops) - 1

\* r'([A-Za-z\s]+)': the first maximal run of letters and whitespace
find_person_name(text) ==
    LET cls == UpperLetters \cup LowerLetters \cup Whitespace
        hits == { i \in 1..Len(text) : text[i] \in cls }
    IN  IF hits = {} THEN NoMatch
        ELSE LET i == SetMin(hits)
             IN  [found |-> TRUE, match |-> SubSeq(text, i, run_end(text, i, cls))]

\* r'([A-Z\s&]+(?:S1|S2|...))' with the suffixes in the order written: the
\* leftmost start from which a match exists; there the class run is taken as
\* long as a suffix still follows (greedy), with the first suffix that fits
find_company_name(text, suffixes) ==
    LET cls == UpperLetters \cup Whitespace \cup {"&"}
        SuffixAt(j) == { n \in 1..Len(suffixes) : StartsAt(text, j, suffixes[n]) }
        \* the run lengths k from i after which a suffix follows
        Lens(i) == IF text[i] \notin cls THEN {}
                   ELSE { k \in 1..(run_end(text, i, cls) - i + 1) : SuffixAt(i + k) # {} }
        hits == { i \in 1..Len(text) : Lens(i) # {} }
    IN  IF hits = {} THEN NoMatch
        ELSE LET i == SetMin(hits)
                 k == SetMax(Lens(i))
                 n == SetMin(SuffixAt(i + k))
             IN  [found |-> TRUE,
                  match |-> SubSeq(text, i, i + k + Len(suffixes[n]) - 1)]

(***************************************************************************)
(* The string literals of document_processor.py.                           *)
(***************************************************************************)

\* 'FORM W-2'
lit_FORM_W2 ==
    << "F", "O", "R", "M", " ", "W", "-", "2" >>
\* 'WAGE AND TAX STATEMENT'
lit_WAGE_AND_TAX_STATEMENT ==
    << "W", "A", "G", "E", " ", "A", "N", "D", " ", "T", "A", "X", " ", "S",
       "T", "A", "T", "E", "M", "E", "N", "T" >>
\* 'EMPLOYER IDENTIFICATION NUMBER'
lit_EMPLOYER_IDENTIFICATION_NUMBER ==
    << "E", "M", "P", "L", "O", "Y", "E", "R", " ", "I", "D", "E", "N", "T",
       "I", "F", "I", "C", "A", "T", "I", "O", "N", " ", "N", "U", "M", "B",
       "E", "R" >>
\* 'FORM 1099-INT'
lit_FORM_1099_INT ==
    << "F", "O", "R", "M", " ", "1", "0", "9", "9", "-", "I", "N", "T" >>
\* 'INTEREST INCOME'
lit_INTEREST_INCOME ==
    << "I", "N", "T", "E", "R", "E", "S", "T", " ", "I", "N", "C", "O", "M",
       "E" >>
\* "PAYER'S NAME"
lit_PAYERS_NAME ==
    << "P", "A", "Y", "E", "R", "'", "S", " ", "N", "A", "M", "E" >>
\* 'FORM 1099-NEC'
lit_FORM_1099_NEC ==
    << "F", "O", "R", "M", " ", "1", "0", "9", "9", "-", "N", "E", "C" >>
\* 'NONEMPLOYEE COMPENSATION'
lit_NONEMPLOYEE_COMPENSATION ==
    << "N", "O", "N", "E", "M", "P", "L", "O", "Y", "E", "E", " ", "C", "O",
       "M", "P", "E", "N", "S", "A", "T", "I", "O", "N" >>
\* '11-1111111'
lit_11_1111111 ==
    << "1", "1", "-", "1", "1", "1", "1", "1", "1", "1" >>
\* '50,000'
lit_50_000 ==
    << "5", "0", ",", "0", "0", "0" >>
\* '8,000'
lit_8_000 ==
    << "8", ",", "0", "0", "0" >>
\* '3,100'
lit_3_100 ==
    << "3", ",", "1", "0", "0" >>
\* '725'
lit_725 ==
    << "7", "2", "5" >>
\* '2,000'
lit_2_000 ==
    << "2", ",", "0", "0", "0" >>
\* 'CA'
lit_CA ==
    << "C", "A" >>
\* '789 Bank St'
lit_789_Bank_St ==
    << "7", "8", "9", " ", "B", "a", "n", "k", " ", "S", "t" >>
\* '300'
lit_300 ==
    << "3", "0", "0" >>
\* '33-3333333'
lit_33_3333333 ==
    << "3", "3", "-", "3", "3", "3", "3", "3", "3", "3" >>
\* '10,000'
lit_10_000 ==
    << "1", "0", ",", "0", "0", "0" >>
\* 'BANK'
lit_BANK ==
    << "B", "A", "N", "K" >>
\* 'CORP'
lit_CORP ==
    << "C", "O", "R", "P" >>
\* 'INC'
lit_INC ==
    << "I", "N", "C" >>
\* 'LLC'
lit_LLC ==
    << "L", "L", "C" >>
\* 'LTD'
lit_LTD ==
    << "L", "T", "D" >>
\* 'COMPANY'
lit_COMPANY ==
    << "C", "O", "M", "P", "A", "N", "Y" >>
\* 'CO'
lit_CO ==
    << "C", "O" >>

(***************************************************************************)
(* document_processor.py                                                   *)
(*                                                                         *)
(* A confidence is the fraction num / den, never reduced.                  *)
(***************************************************************************)

Frac(num, den) == [num |-> num, den |-> den]
FracLess(a, b) == a.num * b.den < b.num * a.den
FracLeq(a, b)  == a.num * b.den <= b.num * a.den
FracEq(a, b)   == a.num * b.den = b.num * a.den
\* (a + b) / 2
FracMean(a, b) == Frac(a.num * b.den + b.num * a.den, 2 * a.den * b.den)

\* class DocumentType(Enum), by value
DocumentType == {"W-2", "1099-INT", "1099-NEC", "UNKNOWN"}

\* the keys of self.w2_patterns, self.int_1099_patterns, self.nec_1099_patterns
w2_patterns ==
    << "employer_ein", "employer_name", "employee_name", "employee_ssn", "wages",
       "federal_tax_withheld", "social_security_wages", "social_security_tax",
       "medicare_wages", "medicare_tax", "state", "state_wages", "state_tax" >>

int_1099_patterns ==
    << "payer_name", "payer_tin", "recipient_ssn", "recipient_name",
       "account_number", "interest_income", "federal_tax_withheld" >>

nec_1099_patterns ==
    << "payer_name", "payer_tin", "recipient_ssn", "recipient_name",
       "account_number", "nonemployee_compensation", "federal_tax_withheld" >>

w2_indicators ==
    << lit_FORM_W2, lit_WAGE_AND_TAX_STATEMENT, lit_EMPLOYER_IDENTIFICATION_NUMBER >>
int_indicators == << lit_FORM_1099_INT, lit_INTEREST_INCOME, lit_PAYERS_NAME >>
nec_indicators == << lit_FORM_1099_NEC, lit_NONEMPLOYEE_COMPENSATION, lit_PAYERS_NAME >>

\* sum(1 for indicator in indicators if indicator in text_upper)
indicator_score(indicators, text_upper) ==
    Cardinality({ i \in DOMAIN indicators : Contains(indicators[i], text_upper) })

\* mutant: ties go to the last key
last_max(keys, scores) ==
    LET best == { i \in DOMAIN keys :
                    /\ \A j \in DOMAIN keys : FracLeq(scores[keys[j]], scores[keys[i]])
                    /\ \A j \in (i + 1)..Len(keys) : FracLess(scores[keys[j]], scores[keys[i]]) }
    IN  keys[CHOOSE i \in best : TRUE]

\* max(scores, key=scores.get): the first key, in the order of insertion, whose
\* score no other key exceeds
first_max(keys, scores) ==
    LET best == { i \in DOMAIN keys :
                    /\ \A j \in DOMAIN keys : FracLeq(scores[keys[j]], scores[keys[i]])
                    /\ \A j \in 1..(i - 1) : FracLess(scores[keys[j]], scores[keys[i]]) }
    IN  keys[CHOOSE i \in best : TRUE]

detect_document_type(text) ==
    LET text_upper == upper(text)
        scores == [t \in {"W-2", "1099-INT", "1099-NEC"} |->
                     IF t = "W-2"
                     THEN Frac(indicator_score(w2_indicators, text_upper), Len(w2_indicators))
                     ELSE IF t = "1099-INT"
                     THEN Frac(indicator_score(int_indicators, text_upper), Len(int_indicators))
                     ELSE Frac(indicator_score(nec_indicators, text_upper), Len(nec_indicators))]
        best_type == first_max(<<"W-2", "1099-INT", "1099-NEC">>, scores)
    IN  [document_type |-> best_type, confidence |-> scores[best_type]]

\* data[field] = value
SetField(data, field, value) == (field :> value) @@ data

\* the state of a parse: the local data and total_matches, or an exception
ParseStart == [raised |-> FALSE, data |-> <<>>, total_matches |-> 0]
ParseRaised == [raised |-> TRUE]

\* data[f1] = float(parts[i1].replace(',', '')), data[f2] = float(...),
\* total_matches += n; a float() that raises ends the parse
SetAmounts(acc, f1, p1, f2, p2, n) ==
    LET v1 == float_of(remove_commas(p1))
        v2 == float_of(remove_commas(p2))
    IN  IF v1.raised \/ v2.raised THEN ParseRaised
        ELSE [raised |-> FALSE,
              data |-> SetField(SetField(acc.data, f1, v1.value), f2, v2.value),
              total_matches |-> acc.total_matches + n]

\* the body of the line loop of parse_w2_data
w2_line(acc, line) ==
    IF acc.raised THEN acc
    ELSE LET parts == split(line) IN
         IF /\ Contains(lit_11_1111111, line) /\ Contains(lit_50_000, line)
            /\ Contains(lit_8_000, line)
         THEN IF Len(parts) >= 3
              THEN SetAmounts(acc, "wages", parts[2],
                              "federal_tax_withheld", parts[3], 2)
              ELSE acc
         ELSE IF Contains(lit_50_000, line) /\ Contains(lit_3_100, line)
         THEN IF Len(parts) >= 2
              THEN SetAmounts(acc, "social_security_wages", parts[1],
                              "social_security_tax", parts[2], 2)
              ELSE acc
         ELSE IF Contains(lit_50_000, line) /\ Contains(lit_725, line)
         THEN IF Len(parts) >= 2
              THEN SetAmounts(acc, "medicare_wages", parts[1],
                              "medicare_tax", parts[2], 2)
              ELSE acc
         ELSE IF /\ Contains(lit_50_000, line) /\ Contains(lit_2_000, line)
                 /\ Contains(lit_CA, line)
         THEN IF Len(parts) >= 3
              THEN LET a == SetAmounts(acc, "state_wages", parts[1],
                                       "state_tax", parts[2], 3)
                   IN  IF a.raised THEN a
                       ELSE [a EXCEPT !.data = SetField(a.data, "state", parts[3])]
              ELSE acc
         ELSE acc

\* parse_w2_data: for line in lines
w2_lines(lines) ==
    LET after[i \in 0..Len(lines)] ==
            IF i = 0 THEN ParseStart ELSE w2_line(after[i - 1], lines[i])
    IN  after[Len(lines)]

\* the body of the regex loop, for the fields it can set: ids is the pair of
\* identifier fields, names the pair of name fields, find[field] the first
\* match of the field's pattern
regex_field(acc, field, ids, names, find) ==
    IF acc.raised \/ field \in DOMAIN acc.data THEN acc
    ELSE IF field \in ids
    THEN LET m == find[field]
         IN  IF m.found
             THEN [acc EXCEPT !.data = SetField(acc.data, field, m.match),
                              !.total_matches = @ + 1]
             ELSE acc
    ELSE IF field \in names
    THEN LET m == find[field]
         IN  IF m.found /\ Len(strip(m.match)) > 2
             THEN [acc EXCEPT !.data = SetField(acc.data, field, strip(m.match)),
                              !.total_matches = @ + 1]
             ELSE acc
    ELSE acc

\* for field_name, pattern in patterns.items(): regex_field
for_patterns(patterns, start, ids, names, find) ==
    LET after[i \in 0..Len(patterns)] ==
            IF i = 0 THEN start
            ELSE regex_field(after[i - 1], patterns[i], ids, names, find)
    IN  after[Len(patterns)]

company_suffixes == << lit_CORP, lit_INC, lit_LLC, lit_LTD, lit_COMPANY, lit_CO >>
payer_suffixes == << lit_BANK, lit_CORP, lit_INC, lit_LLC, lit_LTD, lit_COMPANY, lit_CO >>

\* (data, confidence) of a finished parse
ParseResult(acc, expected_fields) ==
    IF acc.raised THEN ParseRaised
    ELSE [raised |-> FALSE,
          data |-> acc.data,
          confidence |-> IF expected_fields > 0
                         THEN Frac(acc.total_matches, expected_fields)
                         ELSE Frac(0, 1)]

parse_w2_data(text) ==
    LET find == [employer_ein  |-> find_ein(text),
                 employee_ssn  |-> find_ssn(text),
                 employer_name |-> find_company_name(text, company_suffixes),
                 employee_name |-> find_person_name(text)]
        structural == w2_lines(split_lines(text))
    IN  ParseResult(for_patterns(w2_patterns, structural,
                                 {"employer_ein", "employee_ssn"},
                                 {"employer_name", "employee_name"}, find),
                    Len(w2_patterns))

\* for part in parts: the first part that is the digits of amount sets the field
amount_part(acc, parts, field, amount) ==
    LET hits == { i \in DOMAIN parts :
                    /\ isdigit(remove_commas(parts[i]))
                    /\ int_of(remove_commas(parts[i])) = amount }
    IN  IF hits = {} THEN acc
        ELSE [acc EXCEPT !.data = SetField(acc.data, field, amount),
                         !.total_matches = @ + 1]

\* a slip: the amount of the line is also stored as the tax withheld
int_1099_line_with_withheld(acc, line) ==
    IF Contains(lit_789_Bank_St, line) /\ Contains(lit_300, line)
    THEN LET a == amount_part(acc, split(line), "interest_income", 300)
         IN  [a EXCEPT !.data = SetField(a.data, "federal_tax_withheld", 300)]
    ELSE acc

\* the body of the line loop of parse_1099_int_data
int_1099_line(acc, line) ==
    IF Contains(lit_789_Bank_St, line) /\ Contains(lit_300, line)
    THEN amount_part(acc, split(line), "interest_income", 300)
    ELSE acc

\* the body of the line loop of parse_1099_nec_data
nec_1099_line(acc, line) ==
    IF Contains(lit_33_3333333, line) /\ Contains(lit_10_000, line)
    THEN amount_part(acc, split(line), "nonemployee_compensation", 10000)
    ELSE acc

\* parse_1099_int_data: for line in lines
int_1099_lines(lines) ==
    LET after[i \in 0..Len(lines)] ==
            IF i = 0 THEN ParseStart ELSE int_1099_line(after[i - 1], lines[i])
    IN  after[Len(lines)]

\* parse_1099_nec_data: for line in lines
nec_1099_lines(lines) ==
    LET after[i \in 0..Len(lines)] ==
            IF i = 0 THEN ParseStart ELSE nec_1099_line(after[i - 1], lines[i])
    IN  after[Len(lines)]

parse_1099_int_data(text) ==
    LET find == [payer_tin      |-> find_ein(text),
                 recipient_ssn  |-> find_ssn(text),
                 payer_name     |-> find_company_name(text, payer_suffixes),
                 recipient_name |-> find_person_name(text)]
        structural == int_1099_lines(split_lines(text))
    IN  ParseResult(for_patterns(int_1099_patterns, structural,
                                 {"payer_tin", "recipient_ssn"},
                                 {"payer_name", "recipient_name"}, find),
                    Len(int_1099_patterns))

parse_1099_nec_data(text) ==
    LET find == [payer_tin      |-> find_ein(text),
                 recipient_ssn  |-> find_ssn(text),
                 payer_name     |-> find_company_name(text, company_suffixes),
                 recipient_name |-> find_person_name(text)]
        structural == nec_1099_lines(split_lines(text))
    IN  ParseResult(for_patterns(nec_1099_patterns, structural,
                                 {"payer_tin", "recipient_ssn"},
                                 {"payer_name", "recipient_name"}, find),
                    Len(nec_1099_patterns))

(***************************************************************************)
(* A PDF file is the sequence of its pages' texts.  pdfplumber and PyPDF2  *)
(* read the same text off a page; each gets through a number of pages      *)
(* before it raises (all of them when it does not raise).                  *)
(***************************************************************************)

\* text += page_text + "\n" for the first n pages; with skip_empty only for
\* the pages that have text (pdfplumber's loop)
RECURSIVE pages_text(_, _, _, _, _)
pages_text(pages, i, n, skip_empty, text) ==
    IF i > n THEN text
    ELSE IF skip_empty /\ pages[i] = <<>>
         THEN pages_text(pages, i + 1, n, skip_empty, text)
         ELSE pages_text(pages, i + 1, n, skip_empty, text \o pages[i] \o <<"\n">>)

\* a slip: the fallback runs when pdfplumber raised, not when it found no text
extract_text_steps_on_failure(pages, plumber_pages, pypdf_pages) ==
    LET text == pages_text(pages, 1, plumber_pages, TRUE, <<>>)
        fallback == plumber_pages < Len(pages)
    IN  [plumber_text   |-> text,
         plumber_failed |-> plumber_pages < Len(pages),
         fallback       |-> fallback,
         pypdf_text     |-> IF fallback
                            THEN pages_text(pages, 1, pypdf_pages, FALSE, <<>>)
                            ELSE <<>>,
         pypdf_failed   |-> fallback /\ pypdf_pages < Len(pages),
         text           |-> IF fallback
                            THEN strip(pages_text(pages, 1, pypdf_pages, FALSE, text))
                            ELSE strip(text)]

\* extract_text_from_pdf, step by step.  plumber_pages, pypdf_pages: the pages
\* each library reads before it raises or ends; a library that stops before
\* the last page has raised, which the except branch prints.  The record holds
\* what pdfplumber delivered, whether the PyPDF2 branch was entered, what
\* PyPDF2 delivered there, and the text returned.
extract_text_steps(pages, plumber_pages, pypdf_pages) ==
    LET text == pages_text(pages, 1, plumber_pages, TRUE, <<>>)
        fallback == strip(text) = <<>>
    IN  [plumber_text   |-> text,
         plumber_failed |-> plumber_pages < Len(pages),
         fallback       |-> fallback,
         pypdf_text     |-> IF fallback
                            THEN pages_text(pages, 1, pypdf_pages, FALSE, <<>>)
                            ELSE <<>>,
         pypdf_failed   |-> fallback /\ pypdf_pages < Len(pages),
         text           |-> IF fallback
                            THEN strip(pages_text(pages, 1, pypdf_pages, FALSE, text))
                            ELSE strip(text)]

extract_text_from_pdf(pages, plumber_pages, pypdf_pages) ==
    extract_text_steps(pages, plumber_pages, pypdf_pages).text

ExtractedData(document_type, confidence_score, data, text) ==
    [raised |-> FALSE,
     document_type |-> document_type,
     confidence_score |-> confidence_score,
     data |-> data,
     raw_text_length |-> Len(text)]

\* process_document raised: no ExtractedData is returned
Raised == [raised |-> TRUE]

\* a slip: no early return for a document without text
process_text_without_empty_check(text) ==
    LET det == detect_document_type(text)
        doc_type == det.document_type
        parsed == IF doc_type = "W-2" THEN parse_w2_data(text)
                  ELSE IF doc_type = "1099-INT" THEN parse_1099_int_data(text)
                  ELSE IF doc_type = "1099-NEC" THEN parse_1099_nec_data(text)
                  ELSE [raised |-> FALSE, data |-> <<>>, confidence |-> Frac(0, 1)]
    IN  IF parsed.raised THEN Raised
        ELSE ExtractedData(doc_type, FracMean(det.confidence, parsed.confidence),
                           parsed.data, text)

\* process_document, after the text is extracted
process_text(text) ==
    IF text = <<>>
    THEN ExtractedData("UNKNOWN", Frac(0, 1), <<>>, <<>>)
    ELSE LET det == detect_document_type(text)
             doc_type == det.document_type
             parsed == IF doc_type = "W-2" THEN parse_w2_data(text)
                       ELSE IF doc_type = "1099-INT" THEN parse_1099_int_data(text)
                       ELSE IF doc_type = "1099-NEC" THEN parse_1099_nec_data(text)
                       ELSE [raised |-> FALSE, data |-> <<>>, confidence |-> Frac(0, 1)]
         IN  IF parsed.raised THEN Raised
             ELSE ExtractedData(doc_type,
                                FracMean(det.confidence, parsed.confidence),
                                parsed.data, text)

process_document(pages, plumber_pages, pypdf_pages) ==
    process_text(extract_text_from_pdf(pages, plumber_pages, pypdf_pages))

\* the threshold 0.5 of validate_extracted_data
LowConfidence(confidence_score) == FracLess(confidence_score, Frac(1, 2))

validation_errors(extracted_data) ==
    (IF LowConfidence(extracted_data.confidence_score)
     THEN <<"Low confidence in document parsing">> ELSE <<>>)
    \o (IF extracted_data.document_type = "UNKNOWN"
        THEN <<"Could not determine document type">> ELSE <<>>)

validation_warnings(extracted_data) ==
    IF extracted_data.document_type = "W-2"
    THEN (IF "wages" \notin DOMAIN extracted_data.data
          THEN <<"Missing required field: wages">> ELSE <<>>)
         \o (IF "federal_tax_withheld" \notin DOMAIN extracted_data.data
             THEN <<"Missing required field: federal_tax_withheld">> ELSE <<>>)
    ELSE <<>>

validation_suggestions(extracted_data) ==
    IF /\ extracted_data.document_type \in {"1099-INT", "1099-NEC"}
       /\ "federal_tax_withheld" \notin DOMAIN extracted_data.data
    THEN <<"No federal tax withheld found (this may be normal)">>
    ELSE <<>>

\* mutant: a missing required field blocks validity like an error
validate_extracted_data_strict(extracted_data) ==
    [is_valid    |-> /\ DOMAIN extracted_data.data # {}
                     /\ validation_errors(extracted_data) = <<>>
                     /\ validation_warnings(extracted_data) = <<>>,
     errors      |-> validation_errors(extracted_data),
     warnings    |-> validation_warnings(extracted_data),
     suggestions |-> validation_suggestions(extracted_data)]

validate_extracted_data(extracted_data) ==
    [is_valid    |-> /\ DOMAIN extracted_data.data # {}
                     /\ validation_errors(extracted_data) = <<>>,
     errors      |-> validation_errors(extracted_data),
     warnings    |-> validation_warnings(extracted_data),
     suggestions |-> validation_suggestions(extracted_data)]

(***************************************************************************)
(* Inputs of the document pipeline: the pages a PDF file is made of.       *)
(***************************************************************************)

\* 'Form W-2 Wage and Tax Statement\nEmployer identification number'
page_w2_title ==
    << "F", "o", "r", "m", " ", "W", "-", "2", " ", "W", "a", "g", "e", " ",
       "a", "n", "d", " ", "T", "a", "x", " ", "S", "t", "a", "t", "e", "m",
       "e", "n", "t", "\n", "E", "m", "p", "l", "o", "y", "e", "r", " ", "i",
       "d", "e", "n", "t", "i", "f", "i", "c", "a", "t", "i", "o", "n", " ",
       "n", "u", "m", "b", "e", "r" >>

\* '11-1111111 50,000 8,000\n50,000 3,100\n50,000 725\n50,000 2,000 CA'
page_w2_boxes ==
    << "1", "1", "-", "1", "1", "1", "1", "1", "1", "1", " ", "5", "0", ",",
       "0", "0", "0", " ", "8", ",", "0", "0", "0", "\n", "5", "0", ",", "0",
       "0", "0", " ", "3", ",", "1", "0", "0", "\n", "5", "0", ",", "0", "0",
       "0", " ", "7", "2", "5", "\n", "5", "0", ",", "0", "0", "0", " ", "2",
       ",", "0", "0", "0", " ", "C", "A" >>

\* 'John Doe\nACME CORP\n123-45-6789'
page_person ==
    << "J", "o", "h", "n", " ", "D", "o", "e", "\n", "A", "C", "M", "E", " ",
       "C", "O", "R", "P", "\n", "1", "2", "3", "-", "4", "5", "-", "6", "7",
       "8", "9" >>

\* 'Form 1099-INT Interest Income\n789 Bank St 300'
page_1099_int ==
    << "F", "o", "r", "m", " ", "1", "0", "9", "9", "-", "I", "N", "T", " ",
       "I", "n", "t", "e", "r", "e", "s", "t", " ", "I", "n", "c", "o", "m",
       "e", "\n", "7", "8", "9", " ", "B", "a", "n", "k", " ", "S", "t", " ",
       "3", "0", "0" >>

\* 'Form 1099-NEC Nonemployee Compensation\n33-3333333 $ 10,000'
page_1099_nec ==
    << "F", "o", "r", "m", " ", "1", "0", "9", "9", "-", "N", "E", "C", " ",
       "N", "o", "n", "e", "m", "p", "l", "o", "y", "e", "e", " ", "C", "o",
       "m", "p", "e", "n", "s", "a", "t", "i", "o", "n", "\n", "3", "3", "-",
       "3", "3", "3", "3", "3", "3", "3", " ", "$", " ", "1", "0", ",", "0",
       "0", "0" >>

\* "PAYER'S name E BANK"
page_payer ==
    << "P", "A", "Y", "E", "R", "'", "S", " ", "n", "a", "m", "e", " ", "E",
       " ", "B", "A", "N", "K" >>

\* 'EIN 11-1111111 50,000 8,000'
page_bad_w2 ==
    << "E", "I", "N", " ", "1", "1", "-", "1", "1", "1", "1", "1", "1", "1",
       " ", "5", "0", ",", "0", "0", "0", " ", "8", ",", "0", "0", "0" >>

\* 'x-form w-2 wage and tax statement\nemployer identification number'
page_w2_lower ==
    << "x", "-", "f", "o", "r", "m", " ", "w", "-", "2", " ", "w", "a",
       "g", "e", " ", "a", "n", "d", " ", "t", "a", "x", " ", "s", "t",
       "a", "t", "e", "m", "e", "n", "t", "\n", "e", "m", "p", "l", "o",
       "y", "e", "r", " ", "i", "d", "e", "n", "t", "i", "f", "i", "c",
       "a", "t", "i", "o", "n", " ", "n", "u", "m", "b", "e", "r" >>

\* ''
page_blank == <<>>

Pages ==
    { page_w2_title, page_w2_boxes, page_person, page_1099_int, page_1099_nec,
      page_payer, page_bad_w2, page_w2_lower, page_blank }

\* a file has at most MaxPages pages
MaxPages == 3

PdfFiles == UNION { [1..n -> Pages] : n \in 0..MaxPages }

NotYet == [done |-> FALSE]

DocStart ==
    /\ pdf \in PdfFiles
    /\ raw_text = NotYet
    /\ detected = NotYet
    /\ extracted = NotYet
    /\ validation = NotYet

\* extract_text_from_pdf(file_path): each library gets through some of the pages
ExtractText ==
    /\ raw_text = NotYet
    /\ \E plumber_pages \in 0..Len(pdf), pypdf_pages \in 0..Len(pdf) :
         raw_text' = [done |-> TRUE,
                  result |-> extract_text_from_pdf(pdf, plumber_pages, pypdf_pages),
                  steps |-> extract_text_steps(pdf, plumber_pages, pypdf_pages)]
    /\ UNCHANGED <<pdf, detected, extracted, validation,
                   taxVars, batchVars, calcVars>>

\* detect_document_type(text)
DetectDocumentType ==
    /\ raw_text # NotYet
    /\ detected = NotYet
    /\ detected' = [done |-> TRUE, result |-> detect_document_type(raw_text.result)]
    /\ UNCHANGED <<pdf, raw_text, extracted, validation,
                   taxVars, batchVars, calcVars>>

\* process_document(file_path), from the extracted text on
ProcessDocument ==
    /\ detected # NotYet
    /\ extracted = NotYet
    /\ extracted' = [done |-> TRUE, result |-> process_text(raw_text.result)]
    /\ UNCHANGED <<pdf, raw_text, detected, validation,
                   taxVars, batchVars, calcVars>>

\* validate_extracted_data(extracted_data), of a document that was returned
ValidateExtractedData ==
    /\ extracted # NotYet
    /\ ~extracted.result.raised
    /\ validation = NotYet
    /\ validation' = [done |-> TRUE,
                      result |-> validate_extracted_data(extracted.result)]
    /\ UNCHANGED <<pdf, raw_text, detected, extracted,
                   taxVars, batchVars, calcVars>>

NextDoc ==
    ExtractText \/ DetectDocumentType \/ ProcessDocument \/ ValidateExtractedData

(***************************************************************************)
(* Inputs of the tax engine.                                               *)
(***************************************************************************)

\* incomes lie within MaxDelta dollars of a bracket edge of some table
MaxDelta == 2

BracketEdges ==
    UNION { { get_brackets_for_status(s)[i].min_income :
                i \in 1..Len(get_brackets_for_status(s)) } : s \in FilingStatus }

TaxableIncomes ==
    { e + d : e \in BracketEdges, d \in -MaxDelta..MaxDelta } \cap Nat

NoCall == [made |-> FALSE]

TaxCall(taxable_income, status) ==
    [made              |-> TRUE,
     filing_status     |-> status,
     taxable_income    |-> taxable_income,
     tax_liability     |-> calculate_marginal_tax(taxable_income, status),
     bracket_breakdown |-> get_bracket_breakdown(taxable_income, status)]

TaxIdle ==
    /\ filing_status = "single"
    /\ call = NoCall
    /\ prev_call = NoCall

DocIdle ==
    /\ pdf = <<>>
    /\ raw_text = NotYet
    /\ detected = NotYet
    /\ extracted = NotYet
    /\ validation = NotYet

TaxStart ==
    /\ filing_status \in FilingStatus
    /\ call = NoCall
    /\ prev_call = NoCall

\* one use of the bracket engine for the filer (tax_calculator.py 142 and 168)
ComputeTax ==
    \E taxable_income \in TaxableIncomes :
        /\ call' = TaxCall(taxable_income, filing_status)
        /\ prev_call' = call
        /\ UNCHANGED <<filing_status, docVars, batchVars, calcVars>>

NextTax == ComputeTax

(***************************************************************************)
(* tax_calculator.py: calculate_tax and validate_inputs.  A filing status  *)
(* that arrives in a request is a str (a sequence of characters); a        *)
(* FilingStatus member is named by its value.                              *)
(***************************************************************************)

\* a slip: the difference is not clamped at 0
max_unclamped(a, b) == b

\* max(a, b)
Max(a, b) == IF a >= b THEN a ELSE b

\* str.lower()
lower(s) ==
    [i \in 1..Len(s) |->
        IF s[i] \in UpperLetters
        THEN LowerSeq[CHOOSE k \in DOMAIN UpperSeq : UpperSeq[k] = s[i]]
        ELSE s[i]]

lit_single == << "s", "i", "n", "g", "l", "e" >>
lit_married == << "m", "a", "r", "r", "i", "e", "d" >>
lit_head_of_household ==
    << "h", "e", "a", "d", "_", "o", "f", "_", "h", "o", "u", "s", "e", "h",
       "o", "l", "d" >>

\* the members of FilingStatus in definition order, with their values
FilingStatusValues ==
    << [value |-> lit_single, member |-> "single"],
       [value |-> lit_married, member |-> "married"],
       [value |-> lit_head_of_household, member |-> "head_of_household"] >>

\* FilingStatus(value): the member with that value, or ValueError
FilingStatusOf(value) ==
    IF \E i \in DOMAIN FilingStatusValues : FilingStatusValues[i].value = value
    THEN [raised |-> FALSE,
          member |-> FilingStatusValues[
                        CHOOSE i \in DOMAIN FilingStatusValues :
                            FilingStatusValues[i].value = value].member]
    ELSE [raised |-> TRUE]

standard_deductions ==
    [single |-> 14600, married |-> 29200, head_of_household |-> 21900]

\* a slip: the addon only above 65
calculate_standard_deduction_after_65(status, age) ==
    LET base_deduction == standard_deductions[status]
    IN  IF age > 65
        THEN IF status = "married" THEN base_deduction + 1500
             ELSE base_deduction + 1850
        ELSE base_deduction

calculate_standard_deduction(status, age) ==
    LET base_deduction == standard_deductions[status]
    IN  IF age >= 65
        THEN IF status = "single" THEN base_deduction + 1850
             ELSE IF status = "married" THEN base_deduction + 1500
             ELSE IF status = "head_of_household" THEN base_deduction + 1850
             ELSE base_deduction
        ELSE base_deduction

\* a slip: the liability less the payments
calculate_tax_owed_positive(status_str, wages, interest_income, nonemployee_compensation, federal_income_tax_withheld, dependents, age) ==
    LET conversion == FilingStatusOf(lower(status_str))
    IN  IF conversion.raised THEN [raised |-> TRUE]
        ELSE
        LET status_enum == conversion.member
            total_income == wages + interest_income + nonemployee_compensation
            agi == total_income
            standard_deduction == calculate_standard_deduction(status_enum, age)
            taxable_income == Max(0, agi - standard_deduction)
            tax_liability == calculate_marginal_tax(taxable_income, status_enum)
            total_payments == federal_income_tax_withheld
            refund_or_amount_owed == tax_liability - 100 * total_payments
        IN  [raised                |-> FALSE,
             filing_status         |-> status_enum,
             total_income          |-> total_income,
             adjusted_gross_income |-> agi,
             standard_deduction    |-> standard_deduction,
             taxable_income        |-> taxable_income,
             tax_liability         |-> tax_liability,
             total_payments        |-> total_payments,
             refund_or_amount_owed |-> refund_or_amount_owed,
             breakdown |->
                [income_breakdown |->
                    [wages |-> wages,
                     interest_income |-> interest_income,
                     nonemployee_compensation |-> nonemployee_compensation,
                     total_income |-> total_income],
                 deductions |->
                    [standard_deduction |-> standard_deduction,
                     agi |-> agi,
                     taxable_income |-> taxable_income],
                 tax_calculation |->
                    [tax_liability |-> tax_liability,
                     total_payments |-> total_payments,
                     refund_or_amount_owed |-> refund_or_amount_owed],
                 bracket_breakdown |->
                    get_bracket_breakdown(taxable_income, status_enum)]]

\* calculate_tax(filing_status, wages, ..., age): the TaxCalculationResult, or
\* the ValueError of the enum conversion.  tax_liability and
\* refund_or_amount_owed are in cents, every other amount in dollars.
calculate_tax(status_str, wages, interest_income, nonemployee_compensation, federal_income_tax_withheld, dependents, age) ==
    LET conversion == FilingStatusOf(lower(status_str))
    IN  IF conversion.raised THEN [raised |-> TRUE]
        ELSE
        LET status_enum == conversion.member
            total_income == wages + interest_income + nonemployee_compensation
            agi == total_income
            standard_deduction == calculate_standard_deduction(status_enum, age)
            taxable_income == Max(0, agi - standard_deduction)
            tax_liability == calculate_marginal_tax(taxable_income, status_enum)
            total_payments == federal_income_tax_withheld
            refund_or_amount_owed == 100 * total_payments - tax_liability
        IN  [raised                |-> FALSE,
             filing_status         |-> status_enum,
             total_income          |-> total_income,
             adjusted_gross_income |-> agi,
             standard_deduction    |-> standard_deduction,
             taxable_income        |-> taxable_income,
             tax_liability         |-> tax_liability,
             total_payments        |-> total_payments,
             refund_or_amount_owed |-> refund_or_amount_owed,
             breakdown |->
                [income_breakdown |->
                    [wages |-> wages,
                     interest_income |-> interest_income,
                     nonemployee_compensation |-> nonemployee_compensation,
                     total_income |-> total_income],
                 deductions |->
                    [standard_deduction |-> standard_deduction,
                     agi |-> agi,
                     taxable_income |-> taxable_income],
                 tax_calculation |->
                    [tax_liability |-> tax_liability,
                     total_payments |-> total_payments,
                     refund_or_amount_owed |-> refund_or_amount_owed],
                 bracket_breakdown |->
                    get_bracket_breakdown(taxable_income, status_enum)]]

\* one keyword argument of validate_inputs(**kwargs); is_number is
\* isinstance(value, (int, float))
kwarg(key, value, is_number) ==
    [key |-> key, value |-> value, is_number |-> is_number]

HasKey(kwargs, key) == \E i \in DOMAIN kwargs : kwargs[i].key = key
Arg(kwargs, key) == kwargs[CHOOSE i \in DOMAIN kwargs : kwargs[i].key = key].value

valid_statuses == [i \in DOMAIN FilingStatusValues |-> FilingStatusValues[i].value]

InvalidStatusError ==
    "Invalid filing status. Must be one of: ['single', 'married', 'head_of_household']"

\* a slip: only the first violation is reported
validate_inputs_first_error(kwargs) ==
    LET negative == SelectSeq(kwargs, LAMBDA kw : kw.is_number /\ kw.value < 0)
        found ==
            [i \in 1..Len(negative) |-> negative[i].key \o " cannot be negative"]
            \o (IF /\ HasKey(kwargs, "filing_status")
                   /\ \A i \in DOMAIN valid_statuses :
                          valid_statuses[i] # Arg(kwargs, "filing_status")
                THEN << InvalidStatusError >> ELSE <<>>)
            \o (IF HasKey(kwargs, "dependents") /\ Arg(kwargs, "dependents") < 0
                THEN << "Number of dependents cannot be negative" >> ELSE <<>>)
        errors == IF found = <<>> THEN <<>> ELSE << Head(found) >>
        warnings ==
            IF /\ HasKey(kwargs, "age")
               /\ (Arg(kwargs, "age") < 0 \/ Arg(kwargs, "age") > 120)
            THEN << "Age seems unusual, please verify" >> ELSE <<>>
    IN  [is_valid |-> Len(errors) = 0, errors |-> errors, warnings |-> warnings]

\* a slip: the age check looks at the upper end only, and includes it
validate_inputs_age_over_120(kwargs) ==
    LET negative == SelectSeq(kwargs, LAMBDA kw : kw.is_number /\ kw.value < 0)
        errors ==
            [i \in 1..Len(negative) |-> negative[i].key \o " cannot be negative"]
            \o (IF /\ HasKey(kwargs, "filing_status")
                   /\ \A i \in DOMAIN valid_statuses :
                          valid_statuses[i] # Arg(kwargs, "filing_status")
                THEN << InvalidStatusError >> ELSE <<>>)
            \o (IF HasKey(kwargs, "dependents") /\ Arg(kwargs, "dependents") < 0
                THEN << "Number of dependents cannot be negative" >> ELSE <<>>)
        warnings ==
            IF /\ HasKey(kwargs, "age")
               /\ Arg(kwargs, "age") >= 120
            THEN << "Age seems unusual, please verify" >> ELSE <<>>
    IN  [is_valid |-> Len(errors) = 0, errors |-> errors, warnings |-> warnings]

validate_inputs(kwargs) ==
    LET negative == SelectSeq(kwargs, LAMBDA kw : kw.is_number /\ kw.value < 0)
        errors ==
            [i \in 1..Len(negative) |-> negative[i].key \o " cannot be negative"]
            \o (IF /\ HasKey(kwargs, "filing_status")
                   /\ \A i \in DOMAIN valid_statuses :
                          valid_statuses[i] # Arg(kwargs, "filing_status")
                THEN << InvalidStatusError >> ELSE <<>>)
            \o (IF HasKey(kwargs, "dependents") /\ Arg(kwargs, "dependents") < 0
                THEN << "Number of dependents cannot be negative" >> ELSE <<>>)
        warnings ==
            IF /\ HasKey(kwargs, "age")
               /\ (Arg(kwargs, "age") < 0 \/ Arg(kwargs, "age") > 120)
            THEN << "Age seems unusual, please verify" >> ELSE <<>>
    IN  [is_valid |-> Len(errors) = 0, errors |-> errors, warnings |-> warnings]

(***************************************************************************)
(* routes/calculate.py and routes/process.py: the loops over the PDF files *)
(* of the upload folder.                                                   *)
(***************************************************************************)

RECURSIVE GCD(_, _)
GCD(a, b) == IF b = 0 THEN a ELSE GCD(b, a % b)

\* a + b, in lowest terms
FracAdd(a, b) ==
    LET num == a.num * b.den + b.num * a.den
        den == a.den * b.den
        g == GCD(den, num)
    IN  Frac(num \div g, den \div g)

\* round(a, 3), in thousandths
round_3(a) ==
    LET twice == 2000 * a.num
        q == twice \div (2 * a.den)
        r == twice % (2 * a.den)
    IN  IF r < a.den THEN q
        ELSE IF r > a.den THEN q + 1
        ELSE IF q % 2 = 0 THEN q ELSE q + 1

\* dict.get(field, default)
Get(data, field, default) == IF field \in DOMAIN data THEN data[field] ELSE default

\* calculate.py: income_data as initialised
ZeroIncome ==
    [wages |-> 0, interest_income |-> 0, nonemployee_compensation |-> 0,
     federal_income_tax_withheld |-> 0]

\* mutant: a document's amounts replace the totals
aggregate_last_wins(income, extracted_data) ==
    LET doc_type == extracted_data.document_type
        data == extracted_data.data
    IN  IF doc_type = "W-2"
        THEN [income EXCEPT
                !.wages = Get(data, "wages", 0),
                !.federal_income_tax_withheld = Get(data, "federal_tax_withheld", 0)]
        ELSE IF doc_type = "1099-INT"
        THEN [income EXCEPT
                !.interest_income = Get(data, "interest_income", 0),
                !.federal_income_tax_withheld = Get(data, "federal_tax_withheld", 0)]
        ELSE IF doc_type = "1099-NEC"
        THEN [income EXCEPT
                !.nonemployee_compensation = Get(data, "nonemployee_compensation", 0),
                !.federal_income_tax_withheld = Get(data, "federal_tax_withheld", 0)]
        ELSE income

\* a slip of copying: a 1099-NEC is added to the interest
aggregate_nec_as_interest(income, extracted_data) ==
    LET doc_type == extracted_data.document_type
        data == extracted_data.data
    IN  IF doc_type = "W-2"
        THEN [income EXCEPT
                !.wages = @ + Get(data, "wages", 0),
                !.federal_income_tax_withheld = @ + Get(data, "federal_tax_withheld", 0)]
        ELSE IF doc_type = "1099-INT"
        THEN [income EXCEPT
                !.interest_income = @ + Get(data, "interest_income", 0),
                !.federal_income_tax_withheld = @ + Get(data, "federal_tax_withheld", 0)]
        ELSE IF doc_type = "1099-NEC"
        THEN [income EXCEPT
                !.interest_income = @ + Get(data, "nonemployee_compensation", 0),
                !.federal_income_tax_withheld = @ + Get(data, "federal_tax_withheld", 0)]
        ELSE income

\* calculate.py: "Aggregate income data based on document type"
aggregate(income, extracted_data) ==
    LET doc_type == extracted_data.document_type
        data == extracted_data.data
    IN  IF doc_type = "W-2"
        THEN [income EXCEPT
                !.wages = @ + Get(data, "wages", 0),
                !.federal_income_tax_withheld = @ + Get(data, "federal_tax_withheld", 0)]
        ELSE IF doc_type = "1099-INT"
        THEN [income EXCEPT
                !.interest_income = @ + Get(data, "interest_income", 0),
                !.federal_income_tax_withheld = @ + Get(data, "federal_tax_withheld", 0)]
        ELSE IF doc_type = "1099-NEC"
        THEN [income EXCEPT
                !.nonemployee_compensation = @ + Get(data, "nonemployee_compensation", 0),
                !.federal_income_tax_withheld = @ + Get(data, "federal_tax_withheld", 0)]
        ELSE income

\* str(e) of the ValueError float() raises
ValueErrorMessage == "could not convert string to float"

\* calculate.py: the entry of a document that was processed
calculate_document(filename, extracted_data) ==
    [filename         |-> filename,
     document_type    |-> extracted_data.document_type,
     confidence_score |-> extracted_data.confidence_score,
     extracted_data   |-> extracted_data.data]

\* mutant: the entry of a failed document carries no error
calculate_error_document_unannotated(filename, e) ==
    [filename         |-> filename,
     document_type    |-> "UNKNOWN",
     confidence_score |-> Frac(0, 1),
     extracted_data   |-> <<>>]

\* calculate.py: the entry the except branch appends
calculate_error_document(filename, e) ==
    [filename         |-> filename,
     document_type    |-> "UNKNOWN",
     confidence_score |-> Frac(0, 1),
     extracted_data   |-> <<>>,
     error            |-> e]

\* mutant: a document that fails is only logged
calculate_file_drop_failed(income, documents, filename, result) ==
    IF result.raised
    THEN [income_data |-> income, processed_documents |-> documents]
    ELSE [income_data |-> aggregate(income, result),
          processed_documents |->
              Append(documents, calculate_document(filename, result))]

\* a slip: only a document reported valid is aggregated
calculate_file_valid_only(income, documents, filename, result) ==
    IF result.raised
    THEN [income_data |-> income,
          processed_documents |->
              Append(documents, calculate_error_document(filename, ValueErrorMessage))]
    ELSE [income_data |-> IF validate_extracted_data(result).is_valid
                          THEN aggregate(income, result) ELSE income,
          processed_documents |->
              Append(documents, calculate_document(filename, result))]

\* calculate.py: the body of "for filename in pdf_files", result being what
\* process_document did for the file
calculate_file(income, documents, filename, result) ==
    IF result.raised
    THEN [income_data |-> income,
          processed_documents |->
              Append(documents, calculate_error_document(filename, ValueErrorMessage))]
    ELSE [income_data |-> aggregate(income, result),
          processed_documents |->
              Append(documents, calculate_document(filename, result))]

\* process.py: the entry of a document that was processed
process_document_entry(filename, extracted_data) ==
    [filename         |-> filename,
     document_type    |-> extracted_data.document_type,
     confidence_score |-> extracted_data.confidence_score,
     extracted_data   |-> extracted_data.data,
     validation       |-> validate_extracted_data(extracted_data),
     raw_text_length  |-> extracted_data.raw_text_length]

\* process.py: the entry the except branch appends
process_error_document(filename, e) ==
    [filename         |-> filename,
     document_type    |-> "UNKNOWN",
     confidence_score |-> Frac(0, 1),
     extracted_data   |-> <<>>,
     validation       |-> [is_valid    |-> FALSE,
                           errors      |-> << "Processing error: " \o e >>,
                           warnings    |-> <<>>,
                           suggestions |-> <<>>],
     raw_text_length  |-> 0]

\* process.py: the body of "for file_path in pdf_files"
process_file(documents, confidence, filename, result) ==
    IF result.raised
    THEN [processed_documents |->
              Append(documents, process_error_document(filename, ValueErrorMessage)),
          total_confidence |-> confidence]
    ELSE [processed_documents |->
              Append(documents, process_document_entry(filename, result)),
          total_confidence |-> FracAdd(confidence, result.confidence_score)]

\* process.py: "Calculate overall statistics" and "Group by document type"
process_statistics(documents, confidence) ==
    LET avg_confidence ==
            IF documents # <<>>
            THEN Frac(confidence.num, confidence.den * Len(documents))
            ELSE Frac(0, 1)
        valid_documents == SelectSeq(documents, LAMBDA doc : doc.validation.is_valid)
        types == { documents[i].document_type : i \in DOMAIN documents }
    IN  [total_documents    |-> Len(documents),
         valid_documents    |-> Len(valid_documents),
         average_confidence |-> round_3(avg_confidence),
         document_summary   |->
             [t \in types |-> SelectSeq(documents, LAMBDA doc : doc.document_type = t)]]

(***************************************************************************)
(* Inputs of the routes: the request and the upload folder.                *)
(***************************************************************************)

\* '11-1111111 150,000 18,000'
page_w2_second ==
    << "1", "1", "-", "1", "1", "1", "1", "1", "1", "1", " ", "1", "5", "0",
       ",", "0", "0", "0", " ", "1", "8", ",", "0", "0", "0" >>

\* '11-1111111 -50,000 8,000'
page_w2_negative ==
    << "1", "1", "-", "1", "1", "1", "1", "1", "1", "1", " ", "-", "5", "0",
       ",", "0", "0", "0", " ", "8", ",", "0", "0", "0" >>

\* a PDF file of the folder: its name, its pages and how many of them each
\* PDF library gets through
PdfFile(filename, pages, plumber_pages, pypdf_pages) ==
    [filename |-> filename, pages |-> pages,
     plumber_pages |-> plumber_pages, pypdf_pages |-> pypdf_pages]

UploadedFiles ==
    { PdfFile("w2.pdf", << page_w2_title, page_w2_boxes >>, 2, 2),
      PdfFile("w2_second.pdf", << page_w2_title, page_w2_second >>, 0, 2),
      PdfFile("int.pdf", << page_1099_int >>, 1, 1),
      PdfFile("nec.pdf", << page_1099_nec >>, 1, 1),
      PdfFile("bad.pdf", << page_bad_w2 >>, 1, 1),
      PdfFile("blank.pdf", << page_blank >>, 1, 1),
      PdfFile("boxes.pdf", << page_w2_boxes >>, 1, 1),
      PdfFile("negative.pdf", << page_w2_title, page_w2_negative >>, 2, 2) }

\* a folder holds at most MaxFiles PDF files
MaxFiles == 3

\* os.listdir: the files of the folder, each once, in some order
Folders ==
    { files \in UNION { [1..n -> UploadedFiles] : n \in 0..MaxFiles } :
        \A i, j \in DOMAIN files : i # j => files[i].filename # files[j].filename }

\* what process_document does for each file
document_results ==
    [file \in UploadedFiles |->
        process_document(file.pages, file.plumber_pages, file.pypdf_pages)]

lit_Single == << "S", "i", "n", "g", "l", "e" >>
lit_unknown_status ==
    << "u", "n", "k", "n", "o", "w", "n", "_", "s", "t", "a", "t", "u", "s" >>

\* request.get_json() of /calculate
Requests ==
    [filing_status : { lit_single, lit_married, lit_head_of_household,
                       lit_Single, lit_unknown_status },
     dependents    : { -1, 0 },
     age           : { -1, 30, 65, 121 }]

\* request.get_json() of /calculate/estimate
EstimateRequests ==
    [filing_status               : { lit_single, lit_married, lit_Single,
                                     lit_unknown_status },
     total_income                : { -1, 0, 50000 },
     federal_income_tax_withheld : { -1, 8000 },
     dependents                  : { -1, 0 },
     age                         : { -1, 30, 121 }]

\* no JSON body
NoData == [filing_status |-> <<>>, dependents |-> 0, age |-> 0, empty |-> TRUE]

Pending == [status |-> 0]

\* a slip: the filing status is not handed to validate_inputs
request_validation_without_status(data) ==
    validate_inputs(<< kwarg("dependents", data.dependents, TRUE),
                       kwarg("age", data.age, TRUE) >>)

\* validate_inputs(filing_status=..., dependents=..., age=...) of /calculate
request_validation(data) ==
    validate_inputs(<< kwarg("filing_status", data.filing_status, FALSE),
                       kwarg("dependents", data.dependents, TRUE),
                       kwarg("age", data.age, TRUE) >>)

(***************************************************************************)
(* A direct use of TaxCalculator: validate_inputs and calculate_tax on the *)
(* caller's arguments.                                                     *)
(***************************************************************************)

lit_MARRIED == << "M", "A", "R", "R", "I", "E", "D" >>

\* the filing_status strings a caller passes
StatusStrings ==
    { lit_single, lit_married, lit_head_of_household, lit_Single, lit_MARRIED,
      lit_unknown_status }

\* the arguments of calculate_tax (tax_calculator.py 116-123)
CalcInputs ==
    [filing_status               : StatusStrings,
     wages                       : { -1, 0, 50000, 250000 },
     interest_income             : { -1, 0, 300 },
     nonemployee_compensation    : { -1, 0, 12000 },
     federal_income_tax_withheld : { -1, 0, 8000 },
     dependents                  : { -1, 0 },
     age                         : { -1, 0, 30, 64, 65, 120, 121 }]

NoInputs ==
    [filing_status |-> <<>>, wages |-> 0, interest_income |-> 0,
     nonemployee_compensation |-> 0, federal_income_tax_withheld |-> 0,
     dependents |-> 0, age |-> 0]

\* validate_inputs(filing_status=..., wages=..., ..., age=...): every argument
\* of calculate_tax, by keyword, in its order
inputs_kwargs(args) ==
    << kwarg("filing_status", args.filing_status, FALSE),
       kwarg("wages", args.wages, TRUE),
       kwarg("interest_income", args.interest_income, TRUE),
       kwarg("nonemployee_compensation", args.nonemployee_compensation, TRUE),
       kwarg("federal_income_tax_withheld", args.federal_income_tax_withheld, TRUE),
       kwarg("dependents", args.dependents, TRUE),
       kwarg("age", args.age, TRUE) >>

CalcIdle ==
    /\ inputs = NoInputs
    /\ inputs_validation = NotYet
    /\ calc_result = NotYet

CalcStart ==
    /\ inputs \in CalcInputs
    /\ inputs_validation = NotYet
    /\ calc_result = NotYet

\* tax_calculator.validate_inputs(**inputs)
ValidateInputs ==
    /\ inputs_validation = NotYet
    /\ inputs_validation' = validate_inputs(inputs_kwargs(inputs))
    /\ UNCHANGED <<inputs, calc_result, taxVars, docVars, batchVars>>

\* tax_calculator.calculate_tax(**inputs)
CalculateTax ==
    /\ calc_result = NotYet
    /\ calc_result' = calculate_tax(inputs.filing_status,
                                    inputs.wages,
                                    inputs.interest_income,
                                    inputs.nonemployee_compensation,
                                    inputs.federal_income_tax_withheld,
                                    inputs.dependents,
                                    inputs.age)
    /\ UNCHANGED <<inputs, inputs_validation, taxVars, docVars, batchVars>>

NextCalc ==
    \/ ValidateInputs
    \/ CalculateTax

\* validate_inputs(filing_status=..., total_income=..., ...) of
\* /calculate/estimate
estimate_validation(data) ==
    validate_inputs(<< kwarg("filing_status", data.filing_status, FALSE),
                       kwarg("total_income", data.total_income, TRUE),
                       kwarg("federal_income_tax_withheld",
                             data.federal_income_tax_withheld, TRUE),
                       kwarg("dependents", data.dependents, TRUE),
                       kwarg("age", data.age, TRUE) >>)

BatchIdle ==
    /\ route = "calculate"
    /\ request = NoData
    /\ upload_folder = FALSE
    /\ pdf_files = <<>>
    /\ files_done = 0
    /\ income_data = ZeroIncome
    /\ processed_documents = <<>>
    /\ total_confidence = Frac(0, 1)
    /\ response = Pending

Init ==
    /\ route \in {"calculate", "estimate", "process"}
    /\ request \in (CASE route = "calculate" -> Requests \cup {NoData}
                      [] route = "estimate" -> EstimateRequests \cup {NoData}
                      [] route = "process" -> {NoData})
    /\ upload_folder \in (IF route = "estimate" THEN {FALSE} ELSE BOOLEAN)
    /\ pdf_files \in (IF upload_folder THEN Folders ELSE {<<>>})
    /\ files_done = 0
    /\ income_data = ZeroIncome
    /\ processed_documents = <<>>
    /\ total_confidence = Frac(0, 1)
    /\ response = Pending
    /\ TaxIdle
    /\ DocIdle
    /\ CalcIdle

\* /calculate: "No data provided"
CalculateNoData ==
    /\ route = "calculate"
    /\ response = Pending
    /\ request = NoData
    /\ response' = [status |-> 400, error |-> "No data provided"]
    /\ UNCHANGED <<route, request, upload_folder, pdf_files, files_done,
                   income_data, processed_documents, total_confidence,
                   taxVars, docVars, calcVars>>

\* /calculate: the inputs do not validate
CalculateInvalidInput ==
    /\ route = "calculate"
    /\ response = Pending
    /\ request # NoData
    /\ ~request_validation(request).is_valid
    /\ response' = [status |-> 400,
                    error |-> "Invalid input data",
                    validation_errors |-> request_validation(request).errors]
    /\ UNCHANGED <<route, request, upload_folder, pdf_files, files_done,
                   income_data, processed_documents, total_confidence,
                   taxVars, docVars, calcVars>>

\* /calculate: one iteration of the loop over pdf_files
CalculateFile ==
    /\ route = "calculate"
    /\ response = Pending
    /\ request # NoData
    /\ request_validation(request).is_valid
    /\ upload_folder
    /\ files_done < Len(pdf_files)
    /\ LET file == pdf_files[files_done + 1]
           after == calculate_file(income_data, processed_documents,
                                   file.filename, document_results[file])
       IN  /\ income_data' = after.income_data
           /\ processed_documents' = after.processed_documents
    /\ files_done' = files_done + 1
    /\ UNCHANGED <<route, request, upload_folder, pdf_files, total_confidence,
                   response, taxVars, docVars, calcVars>>

\* /calculate: after the loop, calculate_tax and the response
CalculateResponse ==
    /\ route = "calculate"
    /\ response = Pending
    /\ request # NoData
    /\ request_validation(request).is_valid
    /\ upload_folder => files_done = Len(pdf_files)
    /\ LET tax_result ==
               calculate_tax(request.filing_status,
                             income_data.wages,
                             income_data.interest_income,
                             income_data.nonemployee_compensation,
                             income_data.federal_income_tax_withheld,
                             request.dependents,
                             request.age)
       IN  response' =
             IF tax_result.raised
             THEN [status |-> 500, error |-> "Tax calculation failed"]
             ELSE [status |-> 200,
                   message |-> "Tax calculation completed successfully",
                   personal_info |-> request,
                   income_summary |->
                       [wages |-> income_data.wages,
                        interest_income |-> income_data.interest_income,
                        nonemployee_compensation |->
                            income_data.nonemployee_compensation,
                        total_income |-> tax_result.total_income,
                        federal_income_tax_withheld |->
                            income_data.federal_income_tax_withheld],
                   tax_calculation |->
                       [adjusted_gross_income |-> tax_result.adjusted_gross_income,
                        standard_deduction |-> tax_result.standard_deduction,
                        taxable_income |-> tax_result.taxable_income,
                        tax_liability |-> tax_result.tax_liability,
                        total_payments |-> tax_result.total_payments,
                        refund_or_amount_owed |-> tax_result.refund_or_amount_owed],
                   breakdown |-> tax_result.breakdown,
                   processed_documents |-> processed_documents,
                   validation |->
                       [warnings |-> request_validation(request).warnings]]
    /\ UNCHANGED <<route, request, upload_folder, pdf_files, files_done,
                   income_data, processed_documents, total_confidence,
                   taxVars, docVars, calcVars>>

\* /calculate/estimate: "No data provided"
EstimateNoData ==
    /\ route = "estimate"
    /\ response = Pending
    /\ request = NoData
    /\ response' = [status |-> 400, error |-> "No data provided"]
    /\ UNCHANGED <<route, request, upload_folder, pdf_files, files_done,
                   income_data, processed_documents, total_confidence,
                   taxVars, docVars, calcVars>>

\* /calculate/estimate: the inputs do not validate
EstimateInvalidInput ==
    /\ route = "estimate"
    /\ response = Pending
    /\ request # NoData
    /\ ~estimate_validation(request).is_valid
    /\ response' = [status |-> 400,
                    error |-> "Invalid input data",
                    validation_errors |-> estimate_validation(request).errors]
    /\ UNCHANGED <<route, request, upload_folder, pdf_files, files_done,
                   income_data, processed_documents, total_confidence,
                   taxVars, docVars, calcVars>>

\* /calculate/estimate: calculate_tax on the total income and the response
EstimateResponse ==
    /\ route = "estimate"
    /\ response = Pending
    /\ request # NoData
    /\ estimate_validation(request).is_valid
    /\ LET tax_result ==
               calculate_tax(request.filing_status,
                             request.total_income,
                             0,
                             0,
                             request.federal_income_tax_withheld,
                             request.dependents,
                             request.age)
       IN  response' =
             IF tax_result.raised
             THEN [status |-> 500, error |-> "Tax estimation failed"]
             ELSE [status |-> 200,
                   message |-> "Tax estimate completed",
                   estimate |->
                       [total_income |-> tax_result.total_income,
                        tax_liability |-> tax_result.tax_liability,
                        federal_income_tax_withheld |-> tax_result.total_payments,
                        refund_or_amount_owed |-> tax_result.refund_or_amount_owed,
                        \* in percent: cents per dollar of income
                        effective_tax_rate |->
                            IF tax_result.total_income > 0
                            THEN Frac(tax_result.tax_liability,
                                      tax_result.total_income)
                            ELSE Frac(0, 1)],
                   breakdown |-> tax_result.breakdown]
    /\ UNCHANGED <<route, request, upload_folder, pdf_files, files_done,
                   income_data, processed_documents, total_confidence,
                   taxVars, docVars, calcVars>>

\* /process: "Upload folder not found"
ProcessNoFolder ==
    /\ route = "process"
    /\ response = Pending
    /\ ~upload_folder
    /\ response' = [status |-> 404, error |-> "Upload folder not found"]
    /\ UNCHANGED <<route, request, upload_folder, pdf_files, files_done,
                   income_data, processed_documents, total_confidence,
                   taxVars, docVars, calcVars>>

\* /process: "No PDF files found to process"
ProcessNoFiles ==
    /\ route = "process"
    /\ response = Pending
    /\ upload_folder
    /\ pdf_files = <<>>
    /\ response' = [status |-> 400, error |-> "No PDF files found to process"]
    /\ UNCHANGED <<route, request, upload_folder, pdf_files, files_done,
                   income_data, processed_documents, total_confidence,
                   taxVars, docVars, calcVars>>

\* /process: one iteration of the loop over pdf_files
ProcessFile ==
    /\ route = "process"
    /\ response = Pending
    /\ upload_folder
    /\ files_done < Len(pdf_files)
    /\ LET file == pdf_files[files_done + 1]
           after == process_file(processed_documents, total_confidence,
                                 file.filename, document_results[file])
       IN  /\ processed_documents' = after.processed_documents
           /\ total_confidence' = after.total_confidence
    /\ files_done' = files_done + 1
    /\ UNCHANGED <<route, request, upload_folder, pdf_files, income_data,
                   response, taxVars, docVars, calcVars>>

\* /process: after the loop, the statistics and the response
ProcessResponse ==
    /\ route = "process"
    /\ response = Pending
    /\ upload_folder
    /\ pdf_files # <<>>
    /\ files_done = Len(pdf_files)
    /\ response' =
         [status |-> 200,
          message |-> "Document processing completed",
          statistics |-> process_statistics(processed_documents, total_confidence),
          processed_documents |-> processed_documents]
    /\ UNCHANGED <<route, request, upload_folder, pdf_files, files_done,
                   income_data, processed_documents, total_confidence,
                   taxVars, docVars, calcVars>>

Next ==
    \/ CalculateNoData
    \/ CalculateInvalidInput
    \/ CalculateFile
    \/ CalculateResponse
    \/ EstimateNoData
    \/ EstimateInvalidInput
    \/ EstimateResponse
    \/ ProcessNoFolder
    \/ ProcessNoFiles
    \/ ProcessFile
    \/ ProcessResponse

Spec == Init /\ [][Next]_vars

\* the bracket engine alone, and one document alone
InitTax == TaxStart /\ DocIdle /\ BatchIdle /\ CalcIdle

SpecTax == InitTax /\ [][NextTax]_vars

InitDoc == DocStart /\ TaxIdle /\ BatchIdle /\ CalcIdle

SpecDoc == InitDoc /\ [][NextDoc]_vars

\* TaxCalculator alone, on the arguments of a caller
InitCalc == CalcStart /\ TaxIdle /\ DocIdle /\ BatchIdle

SpecCalc == InitCalc /\ [][NextCalc]_vars

(***************************************************************************)
(* Claims about the bracket engine (SpecTax).                              *)
(***************************************************************************)

RECURSIVE SumTaxForBracket(_, _)
SumTaxForBracket(breakdown, i) ==
    IF i > Len(breakdown) THEN 0
    ELSE breakdown[i].tax_for_bracket + SumTaxForBracket(breakdown, i + 1)

\* the index of the bracket an income falls in (min < income <= max), 0 for income 0
ActiveBracket(income, status) ==
    LET brackets == get_brackets_for_status(status)
        hit == { i \in 1..Len(brackets) :
                   brackets[i].min_income < income /\ income <= brackets[i].max_income }
    IN  IF hit = {} THEN 0 ELSE CHOOSE i \in hit : TRUE

FullBracketTax(bracket) == (bracket.max_income - bracket.min_income) * bracket.rate

\* C2: the tax_for_bracket entries of get_bracket_breakdown sum to the tax_liability
\* calculate_marginal_tax returns for the same taxable income and filing status.
C2_BreakdownSumsToLiability ==
    call.made => SumTaxForBracket(call.bracket_breakdown, 1) = call.tax_liability

C2_Witness ==
    /\ call.made
    /\ Len(call.bracket_breakdown) >= 3
    /\ call.tax_liability > 0
    /\ SumTaxForBracket(call.bracket_breakdown, 1) = call.tax_liability

\* C3: for one filing status and taxable incomes a <= b, the tax on a is at most
\* the tax on b.
C3_Monotone ==
    (/\ prev_call.made /\ call.made
     /\ prev_call.filing_status = call.filing_status
     /\ prev_call.taxable_income <= call.taxable_income)
    => prev_call.tax_liability <= call.tax_liability

C3_Witness ==
    /\ prev_call.made /\ call.made
    /\ prev_call.filing_status = call.filing_status
    /\ prev_call.taxable_income < call.taxable_income
    /\ ActiveBracket(prev_call.taxable_income, call.filing_status) >= 1
    /\ ActiveBracket(prev_call.taxable_income, call.filing_status)
         < ActiveBracket(call.taxable_income, call.filing_status)
    /\ prev_call.tax_liability < call.tax_liability

\* C4: (a) two incomes x <= x + D inside one bracket differ in tax by exactly
\* D * rate of that bracket; (b) when the income moves into a higher bracket,
\* every bracket below the new one is charged its full width times its rate, and
\* the brackets that were already full are charged what they were charged before.
C4_SameBracket ==
    LET x == prev_call.taxable_income
        y == call.taxable_income
        k == ActiveBracket(x, call.filing_status)
    IN  (/\ x <= y /\ k >= 1 /\ ActiveBracket(y, call.filing_status) = k)
        => call.tax_liability - prev_call.tax_liability
             = (y - x) * get_brackets_for_status(call.filing_status)[k].rate

C4_LowerBracketsKept ==
    LET brackets == get_brackets_for_status(call.filing_status)
        j == ActiveBracket(prev_call.taxable_income, call.filing_status)
        k == ActiveBracket(call.taxable_income, call.filing_status)
    IN  (j >= 1 /\ j < k)
        => /\ Len(call.bracket_breakdown) = k
           /\ \A i \in 1..(k - 1) :
                 call.bracket_breakdown[i].tax_for_bracket = FullBracketTax(brackets[i])
           /\ \A i \in 1..(j - 1) :
                 prev_call.bracket_breakdown[i].tax_for_bracket
                   = call.bracket_breakdown[i].tax_for_bracket

C4_MarginalSemantics ==
    (prev_call.made /\ call.made /\ prev_call.filing_status = call.filing_status)
    => (C4_SameBracket /\ C4_LowerBracketsKept)

C4_Witness ==
    /\ prev_call.made /\ call.made
    /\ ActiveBracket(prev_call.taxable_income, call.filing_status) = 2
    /\ ActiveBracket(call.taxable_income, call.filing_status) = 4
    /\ call.bracket_breakdown[2].tax_for_bracket
         > prev_call.bracket_breakdown[2].tax_for_bracket
    /\ call.bracket_breakdown[1].tax_for_bracket
         = prev_call.bracket_breakdown[1].tax_for_bracket

C4_WitnessSameBracket ==
    /\ prev_call.made /\ call.made
    /\ ActiveBracket(prev_call.taxable_income, call.filing_status) = 3
    /\ ActiveBracket(call.taxable_income, call.filing_status) = 3
    /\ call.taxable_income - prev_call.taxable_income > 2 * MaxDelta

(***************************************************************************)
(* Claims about one document (SpecDoc).                                    *)
(***************************************************************************)

InUnitInterval(c) == 0 <= c.num /\ c.num <= c.den

\* C1: the confidence_score of the ExtractedData process_document returns, and the
\* field confidence each parse_* function returns for the text, lie within [0,1].
C1_ConfidenceWithinUnitInterval ==
    /\ (extracted.done /\ ~extracted.result.raised)
         => InUnitInterval(extracted.result.confidence_score)
    /\ raw_text.done
         => /\ LET r == parse_w2_data(raw_text.result)
               IN  ~r.raised => InUnitInterval(r.confidence)
            /\ InUnitInterval(parse_1099_int_data(raw_text.result).confidence)
            /\ InUnitInterval(parse_1099_nec_data(raw_text.result).confidence)

\* a W-2 whose structural lines occur twice: the score exceeds 1
C1_Overshoot ==
    /\ extracted.done
    /\ ~extracted.result.raised
    /\ extracted.result.document_type = "W-2"
    /\ extracted.result.confidence_score.num > extracted.result.confidence_score.den

\* C8: classifying the empty text yields W-2 with confidence 0, and the result of
\* a document whose text is empty is reported invalid.
C8_EmptyTextInvalid ==
    (raw_text.done /\ raw_text.result = <<>>)
    => /\ detected.done
            => /\ detected.result.document_type = "W-2"
               /\ detected.result.confidence.num = 0
       /\ extracted.done => ~extracted.result.raised
       /\ validation.done => ~validation.result.is_valid

C8_Witness ==
    /\ Len(pdf) > 0
    /\ raw_text.done /\ raw_text.result = <<>>
    /\ detected.done /\ detected.result.document_type = "W-2"
    /\ validation.done /\ ~validation.result.is_valid

\* C9: a document whose text holds no indicator phrase of any type (classifier
\* confidence 0) is never reported valid.
C9_NoIndicatorNeverValid ==
    (validation.done /\ detected.result.confidence.num = 0)
    => ~validation.result.is_valid

\* a text without any indicator phrase, labelled W-2 and reported valid
C9_ValidWithoutIndicator ==
    /\ validation.done
    /\ detected.result.document_type = "W-2"
    /\ detected.result.confidence.num = 0
    /\ extracted.result.document_type = "W-2"
    /\ validation.result.is_valid

ErrLowConfidence == "Low confidence in document parsing"
ErrUnknownType == "Could not determine document type"
InSeq(x, seq) == \E i \in DOMAIN seq : seq[i] = x

\* C10: is_valid holds exactly when the data is non-empty and no error was raised;
\* the low-confidence error is raised exactly when confidence_score < 0.5 and the
\* type error exactly when the type is UNKNOWN (both when both hold); warnings and
\* suggestions do not enter.
C10_ValidIffDataAndNoError ==
    validation.done
    => LET e == extracted.result
           v == validation.result
           low == 2 * e.confidence_score.num < e.confidence_score.den
           unknown == e.document_type = "UNKNOWN"
       IN  /\ InSeq(ErrLowConfidence, v.errors) <=> low
           /\ InSeq(ErrUnknownType, v.errors) <=> unknown
           /\ Len(v.errors) = (IF low THEN 1 ELSE 0) + (IF unknown THEN 1 ELSE 0)
           /\ v.is_valid <=> (DOMAIN e.data # {} /\ v.errors = <<>>)
           /\ v.is_valid <=> (DOMAIN e.data # {} /\ ~low /\ ~unknown)

\* a valid W-2 with warnings for both required fields
C10_Witness ==
    /\ validation.done
    /\ validation.result.is_valid
    /\ Len(validation.result.warnings) = 2
    /\ extracted.result.document_type = "W-2"

\* a valid 1099 with the withholding suggestion, and a result with both errors
C10_WitnessSuggestion ==
    /\ validation.done
    /\ validation.result.is_valid
    /\ validation.result.suggestions # <<>>

\* a result without errors that is invalid because no field was extracted
C10_WitnessEmptyData ==
    /\ validation.done
    /\ validation.result.errors = <<>>
    /\ DOMAIN extracted.result.data = {}
    /\ ~validation.result.is_valid

C10_WitnessBothErrors ==
    /\ validation.done
    /\ Len(validation.result.errors) = 2

(***************************************************************************)
(* Claims about the routes (Spec).                                         *)
(***************************************************************************)

\* the loop of /calculate over a list of files, from the initial income_data
RECURSIVE CalculateLoop(_, _)
CalculateLoop(files, n) ==
    IF n = 0
    THEN [income_data |-> ZeroIncome, processed_documents |-> <<>>]
    ELSE LET before == CalculateLoop(files, n - 1)
         IN  calculate_file(before.income_data, before.processed_documents,
                            files[n].filename, document_results[files[n]])

TaxResultOf(income) ==
    calculate_tax(request.filing_status, income.wages, income.interest_income,
                  income.nonemployee_compensation,
                  income.federal_income_tax_withheld,
                  request.dependents, request.age)

\* C5: whatever the order in which the files of a batch are processed, the
\* aggregated wages, interest income, nonemployee compensation and federal
\* withheld are the same, and so is the tax result.
C5_OrderIndependent ==
    (route = "calculate" /\ response.status = 200)
    => \A p \in Permutations(DOMAIN pdf_files) :
          LET permuted == [i \in DOMAIN pdf_files |-> pdf_files[p[i]]]
              other == CalculateLoop(permuted, Len(permuted)).income_data
          IN  /\ other = income_data
              /\ TaxResultOf(other).breakdown = response.breakdown
              /\ TaxResultOf(other).tax_liability
                   = response.tax_calculation.tax_liability
              /\ TaxResultOf(other).refund_or_amount_owed
                   = response.tax_calculation.refund_or_amount_owed

\* three documents, two of them W-2s with different amounts
C5_Witness ==
    /\ route = "calculate"
    /\ response.status = 200
    /\ Len(pdf_files) = 3
    /\ income_data.wages = 200000
    /\ income_data.federal_income_tax_withheld = 26000
    /\ income_data.interest_income = 300

\* the income of the first n files, those that raised left out
RECURSIVE IncomeOfSucceeded(_, _)
IncomeOfSucceeded(files, n) ==
    IF n = 0 THEN ZeroIncome
    ELSE IF document_results[files[n]].raised
    THEN IncomeOfSucceeded(files, n - 1)
    ELSE aggregate(IncomeOfSucceeded(files, n - 1), document_results[files[n]])

RECURSIVE ConfidenceOfSucceeded(_, _)
ConfidenceOfSucceeded(files, n) ==
    IF n = 0 THEN Frac(0, 1)
    ELSE IF document_results[files[n]].raised
    THEN ConfidenceOfSucceeded(files, n - 1)
    ELSE FracAdd(ConfidenceOfSucceeded(files, n - 1),
                 document_results[files[n]].confidence_score)

FailedEntry(entry) ==
    /\ entry.document_type = "UNKNOWN"
    /\ entry.confidence_score.num = 0
    /\ entry.extracted_data = <<>>
    /\ IF route = "calculate"
       THEN "error" \in DOMAIN entry /\ entry.error # ""
       ELSE ~entry.validation.is_valid /\ entry.validation.errors # <<>>

\* C6: a document whose processing raises is recorded as UNKNOWN with
\* confidence 0, no data and an error message, adds nothing to the totals, and
\* the files after it are processed: the loop ends with every file gone
\* through and never with a failure of the request.
C6_FailureIsolated ==
    /\ Len(processed_documents) = files_done
    /\ \A i \in DOMAIN processed_documents :
          LET result == document_results[pdf_files[i]]
              entry == processed_documents[i]
          IN  /\ entry.filename = pdf_files[i].filename
              /\ result.raised => FailedEntry(entry)
              /\ ~result.raised
                   => /\ entry.document_type = result.document_type
                      /\ entry.extracted_data = result.data
                      /\ entry.confidence_score = result.confidence_score
                      /\ "error" \notin DOMAIN entry
    /\ income_data = IF route = "calculate"
                     THEN IncomeOfSucceeded(pdf_files, files_done)
                     ELSE ZeroIncome
    /\ FracEq(total_confidence,
              IF route = "process"
              THEN ConfidenceOfSucceeded(pdf_files, files_done)
              ELSE Frac(0, 1))
    /\ response.status = 200 => files_done = Len(pdf_files)
    /\ response.status # 500

\* /calculate went through a file that raised and then a W-2 that counted
C6_Witness ==
    /\ route = "calculate"
    /\ response.status = 200
    /\ \E i, j \in DOMAIN pdf_files :
          /\ i < j
          /\ document_results[pdf_files[i]].raised
          /\ "error" \in DOMAIN processed_documents[i]
          /\ processed_documents[j].document_type = "W-2"
    /\ income_data.wages > 0

\* /process went through a file that raised and then a valid document
C6_WitnessProcess ==
    /\ route = "process"
    /\ response.status = 200
    /\ \E i, j \in DOMAIN pdf_files :
          /\ i < j
          /\ document_results[pdf_files[i]].raised
          /\ processed_documents[j].validation.is_valid

\* C7: after the loop, processed_documents holds exactly one entry for every
\* PDF file submitted, whichever of them failed.
C7_OneEntryPerFile ==
    (/\ route \in {"calculate", "process"}
     /\ response.status = 200 \/ (response = Pending /\ files_done = Len(pdf_files)))
    => /\ Len(processed_documents) = Len(pdf_files)
       /\ \A i \in DOMAIN pdf_files :
             processed_documents[i].filename = pdf_files[i].filename
       /\ response.status = 200
            => /\ response.processed_documents = processed_documents
               /\ route = "process"
                    => response.statistics.total_documents = Len(pdf_files)

\* a batch of three with a failed file and an empty one, answered
C7_Witness ==
    /\ response.status = 200
    /\ Len(pdf_files) = 3
    /\ Len(response.processed_documents) = 3
    /\ \E i \in DOMAIN pdf_files : document_results[pdf_files[i]].raised
    /\ \E i \in DOMAIN pdf_files :
          ~document_results[pdf_files[i]].raised
          /\ document_results[pdf_files[i]].document_type = "UNKNOWN"


(***************************************************************************)
(* Claims about calculate_tax and validate_inputs (SpecCalc)               *)
(***************************************************************************)

Calculated == calc_result # NotYet /\ ~calc_result.raised
Validated == inputs_validation # NotYet

\* C11: for every result of calculate_tax, taxable_income is
\* max(0, adjusted_gross_income - standard_deduction), and
\* adjusted_gross_income = total_income = wages + interest_income +
\* nonemployee_compensation.
C11_TaxableIncome ==
    Calculated =>
        /\ calc_result.total_income =
               inputs.wages + inputs.interest_income + inputs.nonemployee_compensation
        /\ calc_result.adjusted_gross_income = calc_result.total_income
        /\ IF calc_result.adjusted_gross_income > calc_result.standard_deduction
           THEN calc_result.taxable_income =
                    calc_result.adjusted_gross_income - calc_result.standard_deduction
           ELSE calc_result.taxable_income = 0

\* an income below the deduction has been clamped to 0
C11_Witness ==
    /\ Calculated
    /\ calc_result.adjusted_gross_income < calc_result.standard_deduction
    /\ calc_result.adjusted_gross_income > 0
    /\ calc_result.taxable_income = 0

\* an income above the deduction is taxed on the difference
C11_WitnessAbove ==
    /\ Calculated
    /\ calc_result.total_income = 50000 + 300 + 12000
    /\ calc_result.taxable_income = 62300 - 14600


\* C12: for every result of calculate_tax, total_payments is the federal
\* withheld input and refund_or_amount_owed = total_payments - tax_liability:
\* positive exactly when the payments exceed the liability (a refund),
\* negative exactly when the liability exceeds the payments (an amount owed).
C12_RefundOrAmountOwed ==
    Calculated =>
        /\ calc_result.total_payments = inputs.federal_income_tax_withheld
        /\ calc_result.refund_or_amount_owed =
               100 * calc_result.total_payments - calc_result.tax_liability
        /\ calc_result.refund_or_amount_owed > 0
               <=> 100 * inputs.federal_income_tax_withheld > calc_result.tax_liability
        /\ calc_result.refund_or_amount_owed < 0
               <=> calc_result.tax_liability > 100 * inputs.federal_income_tax_withheld

\* a refund
C12_Witness ==
    /\ Calculated
    /\ inputs.federal_income_tax_withheld = 8000
    /\ calc_result.tax_liability > 0
    /\ calc_result.refund_or_amount_owed > 0

\* an amount owed
C12_WitnessOwed ==
    /\ Calculated
    /\ inputs.federal_income_tax_withheld = 8000
    /\ calc_result.tax_liability > 800000
    /\ calc_result.refund_or_amount_owed < 0


\* the deductions and addons the specification lists
BaseDeduction(status) ==
    CASE status = "single" -> 14600
      [] status = "married" -> 29200
      [] status = "head_of_household" -> 21900

AgeAddon(status) ==
    CASE status = "single" -> 1850
      [] status = "married" -> 1500
      [] status = "head_of_household" -> 1850

\* C13: for every filing status the standard deduction is the base deduction
\* (Single 14600, Married 29200, Head of Household 21900) when age < 65, and
\* the base plus the addon of the status (1850, 1500, 1850) when age >= 65.
C13_StandardDeduction ==
    Calculated =>
        calc_result.standard_deduction =
            IF inputs.age < 65
            THEN BaseDeduction(calc_result.filing_status)
            ELSE BaseDeduction(calc_result.filing_status)
                     + AgeAddon(calc_result.filing_status)

\* a married filer of exactly 65 has the addon
C13_Witness ==
    /\ Calculated
    /\ inputs.age = 65
    /\ calc_result.filing_status = "married"
    /\ calc_result.standard_deduction = 30700

\* a head of household of 64 has not
C13_WitnessBelow ==
    /\ Calculated
    /\ inputs.age = 64
    /\ calc_result.filing_status = "head_of_household"
    /\ calc_result.standard_deduction = 21900


\* the scenario: a Single filer of 30 with wages 50000, federal withheld 8000
\* and no other income
Scenario ==
    /\ inputs.filing_status = lit_single
    /\ inputs.wages = 50000
    /\ inputs.federal_income_tax_withheld = 8000
    /\ inputs.interest_income = 0
    /\ inputs.nonemployee_compensation = 0
    /\ inputs.age = 30

\* C14: for the scenario, calculate_tax yields standard_deduction 14600,
\* taxable_income 35400, tax_liability 4016 (1160 in the 10% bracket plus 2856
\* in the 12% bracket, nothing in the 22% bracket) and refund_or_amount_owed
\* 3984.  (Taxes are held in cents.)
C14_EndToEnd ==
    (Scenario /\ calc_result # NotYet) =>
        /\ ~calc_result.raised
        /\ calc_result.standard_deduction = 14600
        /\ calc_result.taxable_income = 35400
        /\ calc_result.tax_liability = 401600
        /\ calc_result.refund_or_amount_owed = 398400
        /\ LET breakdown == calc_result.breakdown.bracket_breakdown
           IN  /\ Len(breakdown) = 2
               /\ breakdown[1].bracket = 10
               /\ breakdown[1].tax_for_bracket = 116000
               /\ breakdown[2].bracket = 12
               /\ breakdown[2].tax_for_bracket = 285600

\* the scenario has been calculated
C14_Witness ==
    /\ Scenario
    /\ Calculated
    /\ calc_result.filing_status = "single"
    /\ calc_result.total_income = 50000


\* the filing status of the call is one of the three values up to letter case
Recognized == ~FilingStatusOf(lower(inputs.filing_status)).raised

\* C15: the filing-status input is case-insensitive: a string that equals
\* single / married / head_of_household up to letter case passes input
\* validation and calculation and gives the result of the lower-case
\* spelling; any other string makes the call fail.
C15_CaseInsensitive ==
    /\ Validated =>
           (InSeq(InvalidStatusError, inputs_validation.errors) <=> ~Recognized)
    /\ calc_result # NotYet =>
           /\ calc_result.raised <=> ~Recognized
           /\ calc_result = calculate_tax(lower(inputs.filing_status),
                                          inputs.wages,
                                          inputs.interest_income,
                                          inputs.nonemployee_compensation,
                                          inputs.federal_income_tax_withheld,
                                          inputs.dependents,
                                          inputs.age)

\* 'Single' with every other argument valid: validate_inputs rejects the
\* call that calculate_tax computes as single
C15_SpellingRejected ==
    /\ inputs.filing_status = lit_Single
    /\ Validated
    /\ ~inputs_validation.is_valid
    /\ inputs_validation.errors = << InvalidStatusError >>
    /\ Calculated
    /\ calc_result.filing_status = "single"


NumericInputs ==
    { "wages", "interest_income", "nonemployee_compensation",
      "federal_income_tax_withheld", "dependents", "age" }

\* C16: validate_inputs reports every violation found, not only the first:
\* for each numeric input k that is negative the errors list contains
\* "k cannot be negative", an unrecognized filing status adds its own error
\* to the same list, and is_valid is true if and only if the list is empty.
C16_AllViolationsReported ==
    Validated =>
        /\ \A k \in NumericInputs :
               inputs[k] < 0 =>
                   InSeq(k \o " cannot be negative", inputs_validation.errors)
        /\ ~Recognized => InSeq(InvalidStatusError, inputs_validation.errors)
        /\ inputs_validation.is_valid <=> inputs_validation.errors = <<>>

\* negative wages, negative interest and an unknown status in one call
C16_Witness ==
    /\ Validated
    /\ inputs.filing_status = lit_unknown_status
    /\ inputs.wages < 0
    /\ inputs.interest_income < 0
    /\ inputs.nonemployee_compensation >= 0
    /\ inputs.federal_income_tax_withheld >= 0
    /\ inputs.dependents >= 0
    /\ inputs.age >= 0
    /\ inputs_validation.errors =
           << "wages cannot be negative", "interest_income cannot be negative",
              InvalidStatusError >>
    /\ ~inputs_validation.is_valid

\* negative wages alone
C16_WitnessWages ==
    /\ Validated
    /\ inputs_validation.errors = << "wages cannot be negative" >>
    /\ ~inputs_validation.is_valid

\* nothing to report
C16_WitnessValid ==
    /\ Validated
    /\ inputs_validation.errors = <<>>
    /\ inputs_validation.is_valid


(***************************************************************************)
(* Claims about the inputs of a calculate call (Spec)                      *)
(***************************************************************************)

\* a negative amount among the inputs of the call: in the request, or in the
\* income aggregated from the documents
NegativeInput ==
    /\ route \in {"calculate", "estimate"}
    /\ request # NoData
    /\ \/ request.dependents < 0
       \/ request.age < 0
       \/ /\ route = "estimate"
          /\ \/ request.total_income < 0
             \/ request.federal_income_tax_withheld < 0
       \/ /\ route = "calculate"
          /\ \/ income_data.wages < 0
             \/ income_data.interest_income < 0
             \/ income_data.nonemployee_compensation < 0
             \/ income_data.federal_income_tax_withheld < 0

\* C17: a calculate call in which any of wages, interest income, nonemployee
\* compensation, federal withheld, dependents or age is negative aborts with
\* a validation error and never produces a TaxResult, also when the negative
\* amount comes from the aggregated document fields.
C17_NegativeInputAborts ==
    (NegativeInput /\ response # Pending)
        => /\ response.status = 400
           /\ response.error = "Invalid input data"

\* /calculate has answered with a tax result for negative aggregated wages
C17_NegativeWagesCalculated ==
    /\ route = "calculate"
    /\ request.dependents >= 0
    /\ request.age >= 0
    /\ income_data.wages < 0
    /\ response.status = 200
    /\ response.income_summary.wages = income_data.wages
    /\ response.tax_calculation.adjusted_gross_income < 0
    /\ response.tax_calculation.taxable_income = 0


\* the request names a filing status that is none of the three, whatever
\* the letter case
UnknownStatus ==
    /\ route \in {"calculate", "estimate"}
    /\ request # NoData
    /\ FilingStatusOf(lower(request.filing_status)).raised

\* C18: a calculate call with an unrecognized filing status fails before any
\* tax computation: the calculate and estimate routes return the validation
\* error before any document is processed or calculate_tax is called, and
\* calculate_tax itself raises on the conversion of the status, before it
\* computes income, deduction or liability.
C18_UnknownStatusFailsFirst ==
    UnknownStatus =>
        /\ files_done = 0
        /\ processed_documents = <<>>
        /\ income_data = ZeroIncome
        /\ response # Pending =>
               /\ response.status = 400
               /\ response.error = "Invalid input data"
               /\ InSeq(InvalidStatusError, response.validation_errors)
               /\ DOMAIN response = {"status", "error", "validation_errors"}
        /\ DOMAIN calculate_tax(request.filing_status, 50000, 0, 0, 8000,
                                request.dependents, request.age) = {"raised"}

\* /calculate has refused 'unknown_status' with files waiting in the folder
C18_Witness ==
    /\ route = "calculate"
    /\ request # NoData
    /\ request.filing_status = lit_unknown_status
    /\ upload_folder
    /\ Len(pdf_files) = 3
    /\ files_done = 0
    /\ response.status = 400
    /\ response.validation_errors = << InvalidStatusError >>

\* /calculate/estimate has refused it
C18_WitnessEstimate ==
    /\ route = "estimate"
    /\ request # NoData
    /\ request.filing_status = lit_unknown_status
    /\ request.total_income = 50000
    /\ response.status = 400
    /\ response.validation_errors = << InvalidStatusError >>


(***************************************************************************)
(* The age check of validate_inputs (SpecCalc)                             *)
(***************************************************************************)

AgeWarning == "Age seems unusual, please verify"

\* every input but the age is valid
OtherInputsValid ==
    /\ inputs.filing_status \in {lit_single, lit_married, lit_head_of_household}
    /\ inputs.wages >= 0
    /\ inputs.interest_income >= 0
    /\ inputs.nonemployee_compensation >= 0
    /\ inputs.federal_income_tax_withheld >= 0
    /\ inputs.dependents >= 0

\* C19 as stated: for every age below 0 or above 120, with all other inputs
\* valid, the warnings list contains the age warning and is_valid remains
\* true.
C19_AgeOnlyWarns ==
    (Validated /\ OtherInputsValid /\ (inputs.age < 0 \/ inputs.age > 120))
        => /\ InSeq(AgeWarning, inputs_validation.warnings)
           /\ inputs_validation.is_valid

\* C19, amended: an age above 120 only produces the warning and is_valid
\* remains true; an age below 0 produces the warning and also the error
\* "age cannot be negative", so is_valid is false; an age within [0,120]
\* produces neither.
C19_AgeWarning ==
    (Validated /\ OtherInputsValid)
        => /\ InSeq(AgeWarning, inputs_validation.warnings)
                <=> (inputs.age < 0 \/ inputs.age > 120)
           /\ inputs.age > 120
                => /\ inputs_validation.is_valid
                   /\ inputs_validation.errors = <<>>
           /\ inputs.age < 0
                => /\ ~inputs_validation.is_valid
                   /\ inputs_validation.errors = << "age cannot be negative" >>
           /\ (inputs.age >= 0 /\ inputs.age <= 120)
                => /\ inputs_validation.is_valid
                   /\ inputs_validation.warnings = <<>>

\* an age of 121 has been validated: a warning and no error
C19_Witness ==
    /\ Validated
    /\ OtherInputsValid
    /\ inputs.age = 121
    /\ inputs_validation.warnings = << AgeWarning >>
    /\ inputs_validation.is_valid

\* an age of -1 has been validated: the warning and an error
C19_WitnessNegative ==
    /\ Validated
    /\ OtherInputsValid
    /\ inputs.age = -1
    /\ inputs_validation.warnings = << AgeWarning >>
    /\ ~inputs_validation.is_valid


(***************************************************************************)
(* The income aggregate of /calculate (Spec)                               *)
(***************************************************************************)

\* C20: after folding any batch of documents, each component of the income
\* aggregate (wages, interest_income, nonemployee_compensation,
\* federal_income_tax_withheld) is non-negative.
C20_AggregateNonNegative ==
    route = "calculate" =>
        /\ income_data.wages >= 0
        /\ income_data.interest_income >= 0
        /\ income_data.nonemployee_compensation >= 0
        /\ income_data.federal_income_tax_withheld >= 0

\* the loop has folded a batch of two, a 1099-INT and the W-2 with the line
\* '11-1111111 -50,000 8,000', into wages of -50000
C20_NegativeAggregate ==
    /\ route = "calculate"
    /\ Len(pdf_files) = 2
    /\ files_done = Len(pdf_files)
    /\ \E i \in DOMAIN pdf_files : pdf_files[i].filename = "negative.pdf"
    /\ income_data.wages = -50000
    /\ income_data.interest_income = 300
    /\ income_data.federal_income_tax_withheld = 8000


(***************************************************************************)
(* Claims about the classifier and the parsers (SpecDoc)                   *)
(***************************************************************************)

TypeOrder == << "W-2", "1099-INT", "1099-NEC" >>

IndicatorsOf(t) ==
    CASE t = "W-2" -> w2_indicators
      [] t = "1099-INT" -> int_indicators
      [] t = "1099-NEC" -> nec_indicators

\* the indicator phrases of type t that occur in the upper-cased text, over
\* the number of indicators of t
ScoreOf(t, text) ==
    Frac(Cardinality({ i \in DOMAIN IndicatorsOf(t) :
                         Contains(IndicatorsOf(t)[i], upper(text)) }),
         Len(IndicatorsOf(t)))

\* C21: detect_document_type scores each type as (indicator phrases present
\* in the upper-cased text) / (indicators defined for it), returns the type
\* with the maximum score and that score as confidence, breaks ties in the
\* order W-2, 1099-INT, 1099-NEC, and never returns UNKNOWN.
C21_MaxScoreFixedOrder ==
    detected # NotYet =>
        LET text == raw_text.result
            best == detected.result
        IN  /\ \E k \in DOMAIN TypeOrder :
                  /\ best.document_type = TypeOrder[k]
                  /\ FracEq(best.confidence, ScoreOf(TypeOrder[k], text))
                  /\ \A j \in DOMAIN TypeOrder :
                         FracLeq(ScoreOf(TypeOrder[j], text), best.confidence)
                  /\ \A j \in 1..(k - 1) :
                         FracLess(ScoreOf(TypeOrder[j], text), best.confidence)
            /\ best.document_type # "UNKNOWN"

\* 1099-INT and 1099-NEC tie above W-2 ("PAYER'S NAME" is an indicator of
\* both): the result is 1099-INT
C21_Witness ==
    /\ detected # NotYet
    /\ FracEq(ScoreOf("1099-INT", raw_text.result), ScoreOf("1099-NEC", raw_text.result))
    /\ FracLess(ScoreOf("W-2", raw_text.result), ScoreOf("1099-INT", raw_text.result))
    /\ detected.result.document_type = "1099-INT"

\* 1099-NEC alone has the maximum
C21_WitnessLast ==
    /\ detected # NotYet
    /\ FracLess(ScoreOf("W-2", raw_text.result), ScoreOf("1099-NEC", raw_text.result))
    /\ FracLess(ScoreOf("1099-INT", raw_text.result), ScoreOf("1099-NEC", raw_text.result))
    /\ detected.result.document_type = "1099-NEC"
    /\ detected.result.confidence = Frac(2, 3)


\* the number of fields expected for a type
ExpectedFields(t) ==
    CASE t = "W-2" -> Len(w2_patterns)
      [] t = "1099-INT" -> Len(int_1099_patterns)
      [] t = "1099-NEC" -> Len(nec_1099_patterns)

Processed == extracted # NotYet /\ ~extracted.result.raised

\* (fields present in the returned data) / (fields expected for the type)
FieldsPresent ==
    Frac(Cardinality(DOMAIN extracted.result.data),
         ExpectedFields(extracted.result.document_type))

\* C22: for every parser and every text the field confidence is (number of
\* fields present in the returned data) / (number of fields expected for the
\* type), and the overall confidence of the document is the average of the
\* classifier confidence and that field confidence.
C22_FieldConfidence ==
    (Processed /\ extracted.result.document_type # "UNKNOWN")
        => FracEq(extracted.result.confidence_score,
                  FracMean(detected.result.confidence, FieldsPresent))

\* a 1099-INT text with the line '789 Bank St 300' twice: one interest_income
\* in the data, counted twice in the confidence
C22_CountedTwice ==
    /\ Processed
    /\ extracted.result.document_type = "1099-INT"
    /\ pdf = << page_1099_int, page_1099_int >>
    /\ DOMAIN extracted.result.data = {"recipient_name", "interest_income"}
    /\ FracLess(FracMean(detected.result.confidence, FieldsPresent),
                extracted.result.confidence_score)


\* a text without a non-whitespace character
OnlyWhitespace(text) == \A i \in DOMAIN text : text[i] \in Whitespace

\* C23: extract_text_from_pdf never propagates an error: a failure of
\* pdfplumber or of PyPDF2 is absorbed and a text is returned; the fallback
\* runs if and only if pdfplumber produced no non-whitespace text, whether by
\* failing or by finding none; and when both produce nothing the result is
\* the empty string.
C23_ExtractionAbsorbsFailures ==
    raw_text # NotYet =>
        LET steps == raw_text.steps
        IN  /\ steps.fallback <=> OnlyWhitespace(steps.plumber_text)
            /\ ~steps.fallback =>
                   /\ raw_text.result = strip(steps.plumber_text)
                   /\ raw_text.result # <<>>
            /\ steps.fallback =>
                   raw_text.result = strip(steps.plumber_text \o steps.pypdf_text)
            /\ (OnlyWhitespace(steps.plumber_text) /\ OnlyWhitespace(steps.pypdf_text))
                   => raw_text.result = <<>>
            /\ DOMAIN raw_text.result = 1..Len(raw_text.result)

\* pdfplumber raised before it had any text and PyPDF2 delivered the text
C23_Witness ==
    /\ raw_text # NotYet
    /\ raw_text.steps.plumber_failed
    /\ raw_text.steps.plumber_text = <<>>
    /\ raw_text.steps.fallback
    /\ ~raw_text.steps.pypdf_failed
    /\ raw_text.result # <<>>

\* pdfplumber raised after a page with text: no fallback, the text so far is
\* returned
C23_WitnessNoFallback ==
    /\ raw_text # NotYet
    /\ raw_text.steps.plumber_failed
    /\ ~raw_text.steps.fallback
    /\ raw_text.result = page_w2_title
    /\ Len(pdf) = 2

\* both libraries raised at once: the empty string
C23_WitnessBothFailed ==
    /\ raw_text # NotYet
    /\ pdf # <<>>
    /\ pdf[1] # page_blank
    /\ raw_text.steps.plumber_failed
    /\ raw_text.steps.pypdf_failed
    /\ raw_text.result = <<>>

\* pdfplumber read every page and found no text: the fallback runs
C23_WitnessNoText ==
    /\ raw_text # NotYet
    /\ pdf = << page_blank >>
    /\ ~raw_text.steps.plumber_failed
    /\ raw_text.steps.fallback


(***************************************************************************)
(* Claims about the aggregation of /calculate (Spec)                       *)
(***************************************************************************)

\* the document the loop of /calculate goes through in this step
StepResult == document_results[pdf_files[files_done + 1]]

\* what a field of the document adds: its value, or 0 when it is missing
FieldOr0(field) ==
    IF field \in DOMAIN StepResult.data THEN StepResult.data[field] ELSE 0

IncomeFieldOf(t) ==
    CASE t = "W-2" -> "wages"
      [] t = "1099-INT" -> "interest_income"
      [] t = "1099-NEC" -> "nonemployee_compensation"

\* the field of the document that goes into a total
DataFieldOf(total) == IF total = "federal_income_tax_withheld"
                      THEN "federal_tax_withheld" ELSE total

\* C24: aggregation routes each document by its type only: a W-2 adds its
\* wages to wages, a 1099-INT its interest_income to interest_income, a
\* 1099-NEC its nonemployee_compensation to nonemployee_compensation, each
\* adds its federal_tax_withheld to the withheld total, a missing field adds
\* 0, a document of type UNKNOWN (or one that raised) adds nothing, and no
\* document changes the income total of another type.
C24_RoutedByType ==
    [][(route = "calculate" /\ files_done' = files_done + 1) =>
          IF StepResult.raised \/ StepResult.document_type = "UNKNOWN"
          THEN income_data' = income_data
          ELSE \A total \in DOMAIN income_data :
                  income_data'[total] =
                      IF total \in { IncomeFieldOf(StepResult.document_type),
                                     "federal_income_tax_withheld" }
                      THEN income_data[total] + FieldOr0(DataFieldOf(total))
                      ELSE income_data[total]
      ]_vars

\* the loop has gone through a W-2, a 1099-INT and a 1099-NEC: each total
\* holds the amount of its document, the withheld only that of the W-2
C24_Witness ==
    /\ route = "calculate"
    /\ files_done = 3
    /\ income_data = [wages |-> 150000, interest_income |-> 300,
                      nonemployee_compensation |-> 10000,
                      federal_income_tax_withheld |-> 18000]

\* the loop has gone through a W-2 and then a document of type UNKNOWN
C24_WitnessUnknown ==
    /\ route = "calculate"
    /\ files_done = 2
    /\ pdf_files[2].filename = "blank.pdf"
    /\ processed_documents[2].document_type = "UNKNOWN"
    /\ income_data = [wages |-> 50000, interest_income |-> 0,
                      nonemployee_compensation |-> 0,
                      federal_income_tax_withheld |-> 8000]


(***************************************************************************)
(* Claims about the bracket tables and the breakdown (SpecTax)             *)
(***************************************************************************)

\* C25: for each filing status the bracket table is well formed: the first
\* bracket starts at 0, each bracket's max_income is the next bracket's
\* min_income, min_income and rate are strictly increasing along the table,
\* every rate lies in (0,1] (held in percent: in 1..100), and the last
\* bracket has an unbounded max_income.
C25_TableWellFormed ==
    LET brackets == get_brackets_for_status(filing_status)
    IN  /\ Len(brackets) > 0
        /\ brackets[1].min_income = 0
        /\ \A i \in 1..(Len(brackets) - 1) :
              /\ brackets[i].max_income = brackets[i + 1].min_income
              /\ brackets[i].min_income < brackets[i + 1].min_income
              /\ brackets[i].rate < brackets[i + 1].rate
        /\ \A i \in DOMAIN brackets :
              /\ 0 < brackets[i].rate
              /\ brackets[i].rate <= 100
              /\ brackets[i].min_income < brackets[i].max_income
        /\ brackets[Len(brackets)].max_income = inf

\* the engine has gone through the whole table of a head of household
C25_Witness ==
    /\ filing_status = "head_of_household"
    /\ call.made
    /\ Len(call.bracket_breakdown) = Len(hoh_brackets)
    /\ Len(hoh_brackets) = 7


\* C26: get_bracket_breakdown lists exactly the brackets with
\* taxable_income > min_income, in ascending bracket order, so the breakdown
\* is a prefix of the bracket table of the status and is empty when the
\* taxable income is 0, and the range of the top bracket is reported
\* open-ended.
C26_BreakdownIsReachedPrefix ==
    call.made =>
        LET brackets == get_brackets_for_status(call.filing_status)
            breakdown == call.bracket_breakdown
            reached == { i \in DOMAIN brackets :
                           call.taxable_income > brackets[i].min_income }
        IN  /\ DOMAIN breakdown = reached
            /\ \A i \in DOMAIN breakdown :
                  /\ breakdown[i].bracket = brackets[i].rate
                  /\ breakdown[i].income_range.min_income = brackets[i].min_income
                  /\ breakdown[i].income_range.max_income = brackets[i].max_income
                  /\ breakdown[i].income_range.open_ended <=> i = Len(brackets)
            /\ call.taxable_income = 0 => breakdown = <<>>

\* an income above the last edge: the whole table, the last range open-ended
C26_Witness ==
    /\ call.made
    /\ call.filing_status = "married"
    /\ call.taxable_income = 731201
    /\ Len(call.bracket_breakdown) = 7
    /\ call.bracket_breakdown[7].income_range.open_ended
    /\ ~call.bracket_breakdown[6].income_range.open_ended

\* an income of exactly an edge: the bracket that starts there is not listed
C26_WitnessEdge ==
    /\ call.made
    /\ call.filing_status = "single"
    /\ call.taxable_income = 47150
    /\ Len(call.bracket_breakdown) = 2

\* no taxable income: an empty breakdown
C26_WitnessZero ==
    /\ call.made
    /\ call.taxable_income = 0
    /\ call.bracket_breakdown = <<>>


RECURSIVE SumTaxableInBracket(_, _)
SumTaxableInBracket(breakdown, i) ==
    IF i > Len(breakdown) THEN 0
    ELSE breakdown[i].taxable_in_bracket + SumTaxableInBracket(breakdown, i + 1)

\* C27: for every taxable income >= 0 and filing status the taxable_in_bracket
\* amounts of the breakdown sum to the taxable income: every listed bracket but
\* the last is taxed on its full width and the last one on the remainder.
C27_BreakdownCoversIncome ==
    call.made =>
        LET breakdown == call.bracket_breakdown
            n == Len(breakdown)
        IN  /\ SumTaxableInBracket(breakdown, 1) = call.taxable_income
            /\ \A i \in 1..n :
                  breakdown[i].taxable_in_bracket =
                      IF i < n
                      THEN breakdown[i].income_range.max_income
                               - breakdown[i].income_range.min_income
                      ELSE call.taxable_income - breakdown[i].income_range.min_income

\* an income inside the third bracket: two full widths and a remainder
C27_Witness ==
    /\ call.made
    /\ call.filing_status = "single"
    /\ call.taxable_income = 47151
    /\ Len(call.bracket_breakdown) = 3
    /\ call.bracket_breakdown[1].taxable_in_bracket = 11600
    /\ call.bracket_breakdown[2].taxable_in_bracket = 35550
    /\ call.bracket_breakdown[3].taxable_in_bracket = 1

\* an income in the open-ended bracket: the remainder above its min_income
C27_WitnessTop ==
    /\ call.made
    /\ call.filing_status = "single"
    /\ Len(call.bracket_breakdown) = 7
    /\ call.bracket_breakdown[7].taxable_in_bracket = call.taxable_income - 609350


\* the message validate_extracted_data gives a 1099 without federal_tax_withheld
SuggestNoWithheld == "No federal tax withheld found (this may be normal)"

\* neither field is a key of the data a parser returned
NeverReturned(parsed) ==
    /\ ~parsed.raised
    /\ "federal_tax_withheld" \notin DOMAIN parsed.data
    /\ "account_number" \notin DOMAIN parsed.data

\* C28: for every text the data of parse_1099_int_data and parse_1099_nec_data
\* contains neither federal_tax_withheld nor account_number; hence every 1099
\* document gets the 'no federal tax withheld' suggestion and adds 0 to the
\* aggregated federal withheld.
C28_No1099Withheld ==
    /\ raw_text.done
         => /\ NeverReturned(parse_1099_int_data(raw_text.result))
            /\ NeverReturned(parse_1099_nec_data(raw_text.result))
    /\ (Processed /\ extracted.result.document_type \in {"1099-INT", "1099-NEC"})
         => /\ "federal_tax_withheld" \notin DOMAIN extracted.result.data
            /\ "account_number" \notin DOMAIN extracted.result.data
            /\ aggregate(ZeroIncome, extracted.result).federal_income_tax_withheld = 0
            /\ \A income \in {ZeroIncome, [ZeroIncome EXCEPT
                                             !.federal_income_tax_withheld = 8000]} :
                  aggregate(income, extracted.result).federal_income_tax_withheld
                      = income.federal_income_tax_withheld
            /\ validation.done
                 => validation.result.suggestions = << SuggestNoWithheld >>

\* a 1099-INT whose text has the amount 300, which both the amount pattern and
\* the account_number pattern match: the interest is returned, no withholding
C28_Witness ==
    /\ Processed
    /\ extracted.result.document_type = "1099-INT"
    /\ Get(extracted.result.data, "interest_income", 0) = 300
    /\ "federal_tax_withheld" \notin DOMAIN extracted.result.data
    /\ validation.done
    /\ validation.result.suggestions = << SuggestNoWithheld >>

\* the same for a 1099-NEC
C28_WitnessNec ==
    /\ Processed
    /\ extracted.result.document_type = "1099-NEC"
    /\ Get(extracted.result.data, "nonemployee_compensation", 0) = 10000
    /\ validation.done
    /\ validation.result.suggestions = << SuggestNoWithheld >>

\* a W-2 feeds the aggregated withheld
C28_WitnessW2 ==
    /\ Processed
    /\ extracted.result.document_type = "W-2"
    /\ aggregate(ZeroIncome, extracted.result).federal_income_tax_withheld = 8000


\* the entry /process reports for the document of this state
ProcessEntry ==
    process_file(<<>>, Frac(0, 1), "document.pdf", extracted.result)
        .processed_documents[1]

\* the entry /calculate reports for the document of this state
CalculateEntry ==
    calculate_file(ZeroIncome, <<>>, "document.pdf", extracted.result)
        .processed_documents[1]

NoIndicator(text) == \A i \in DOMAIN TypeOrder : ScoreOf(TypeOrder[i], text).num = 0

\* C29: a document is reported with type UNKNOWN if and only if its extracted
\* text is empty or its processing raised; a document with non-empty text that
\* was processed is labelled W-2, 1099-INT or 1099-NEC (W-2 when no indicator
\* matches), and every UNKNOWN result has confidence 0, empty data and
\* is_valid = false.
C29_UnknownIffEmptyOrRaised ==
    extracted.done =>
        LET text == raw_text.result
            raised == extracted.result.raised
            entry == ProcessEntry
        IN  /\ entry.document_type = "UNKNOWN" <=> (text = <<>> \/ raised)
            /\ CalculateEntry.document_type = entry.document_type
            /\ (text # <<>> /\ ~raised)
                 => /\ entry.document_type \in {"W-2", "1099-INT", "1099-NEC"}
                    /\ NoIndicator(text) => entry.document_type = "W-2"
            /\ entry.document_type = "UNKNOWN"
                 => /\ entry.confidence_score.num = 0
                    /\ DOMAIN entry.extracted_data = {}
                    /\ ~entry.validation.is_valid
                    /\ CalculateEntry.confidence_score.num = 0
                    /\ DOMAIN CalculateEntry.extracted_data = {}

\* pages that give no text: reported UNKNOWN with confidence 0 and the error
\* of validate_extracted_data
C29_Witness ==
    /\ extracted.done
    /\ Len(pdf) > 0
    /\ raw_text.result = <<>>
    /\ ~extracted.result.raised
    /\ ProcessEntry.document_type = "UNKNOWN"
    /\ InSeq(ErrUnknownType, ProcessEntry.validation.errors)

\* a text whose parsing raised: reported UNKNOWN by the except branch
C29_WitnessRaised ==
    /\ extracted.done
    /\ raw_text.result # <<>>
    /\ extracted.result.raised
    /\ ProcessEntry.document_type = "UNKNOWN"
    /\ ProcessEntry.raw_text_length = 0

\* a text without any indicator phrase: labelled W-2
C29_WitnessNoIndicator ==
    /\ extracted.done
    /\ raw_text.result # <<>>
    /\ ~extracted.result.raised
    /\ NoIndicator(raw_text.result)
    /\ ProcessEntry.document_type = "W-2"


(***************************************************************************)
(* Claims about validation and aggregation (Spec)                          *)
(***************************************************************************)

\* the amounts a document holds, by its type; none when its processing raised
AmountsOf(result) ==
    IF result.raised THEN ZeroIncome
    ELSE LET t == result.document_type
             amount(type, field) ==
                 IF t = type /\ field \in DOMAIN result.data
                 THEN result.data[field] ELSE 0
         IN  [wages |-> amount("W-2", "wages"),
              interest_income |-> amount("1099-INT", "interest_income"),
              nonemployee_compensation |->
                  amount("1099-NEC", "nonemployee_compensation"),
              federal_income_tax_withheld |->
                  IF t # "UNKNOWN" /\ "federal_tax_withheld" \in DOMAIN result.data
                  THEN result.data["federal_tax_withheld"] ELSE 0]

\* the amounts of the first n files of the folder, added up
RECURSIVE SumAmounts(_, _)
SumAmounts(files, n) ==
    IF n = 0 THEN ZeroIncome
    ELSE LET before == SumAmounts(files, n - 1)
             amounts == AmountsOf(document_results[files[n]])
         IN  [total \in DOMAIN ZeroIncome |-> before[total] + amounts[total]]

\* validate_extracted_data would report the document invalid
ReportedInvalid(file) ==
    /\ ~document_results[file].raised
    /\ ~validate_extracted_data(document_results[file]).is_valid

\* C30: the outcome of validation never gates aggregation: in /calculate a
\* document that validate_extracted_data would report invalid still adds all
\* of its extracted amounts to the income aggregate and so to the tax result;
\* only a document whose processing raised is left out.
C30_ValidationNeverGates ==
    route = "calculate" =>
        LET amounts == SumAmounts(pdf_files, files_done)
        IN  /\ income_data = amounts
            /\ response.status = 200
                 => /\ response.income_summary.wages = amounts.wages
                    /\ response.income_summary.interest_income
                         = amounts.interest_income
                    /\ response.income_summary.nonemployee_compensation
                         = amounts.nonemployee_compensation
                    /\ response.income_summary.federal_income_tax_withheld
                         = amounts.federal_income_tax_withheld
                    /\ response.income_summary.total_income
                         = amounts.wages + amounts.interest_income
                           + amounts.nonemployee_compensation
                    /\ response.tax_calculation.tax_liability
                         = TaxResultOf(amounts).tax_liability
                    /\ response.tax_calculation.refund_or_amount_owed
                         = TaxResultOf(amounts).refund_or_amount_owed

\* a folder of two documents both reported invalid for their low confidence, a
\* 1099-INT with 300 of interest and a W-2 with 50,000 of wages: the response
\* carries both amounts and a tax on them
C30_Witness ==
    /\ route = "calculate"
    /\ response.status = 200
    /\ Len(pdf_files) = 2
    /\ { pdf_files[i].filename : i \in DOMAIN pdf_files } = {"int.pdf", "boxes.pdf"}
    /\ \A i \in DOMAIN pdf_files : ReportedInvalid(pdf_files[i])
    /\ response.income_summary.interest_income = 300
    /\ response.income_summary.wages = 50000
    /\ response.tax_calculation.tax_liability > 0

\* a document that raised next to a valid one: only the valid one is counted
C30_WitnessRaised ==
    /\ route = "calculate"
    /\ response.status = 200
    /\ Len(pdf_files) = 2
    /\ \E i \in DOMAIN pdf_files : document_results[pdf_files[i]].raised
    /\ response.income_summary.total_income = 10000

=============================================================================
